---- MODULE Spec2Model ----
(***************************************************************************)
(* Model of the MPS writer (library/mps/writer.c, include/mbedtls/mps/     *)
(* writer.h).  The writer brokers one outgoing data buffer `out` and an    *)
(* optional queue between a provider (feed / reclaim / bytes_written) and  *)
(* a consumer (get / commit_partial).                                      *)
(*                                                                         *)
(* Memory is modelled byte by byte: `buf` is the buffer most recently      *)
(* passed to feed (wr.out points into it while the writer is consuming),   *)
(* `queue` is the queue buffer handed to mbedtls_writer_init.  A byte is   *)
(* either 0 (never written) or a stamp 1..MaxStamp; the consumer stamps    *)
(* every byte of every slice it is handed with a fresh stamp.              *)
(***************************************************************************)
EXTENDS Integers, Sequences, FiniteSets, TLC

\* ---------------------------------------------------------------- bounds
MaxBuf     == 2   \* largest buffer length passed to feed
MaxQueue   == 3   \* largest queue length passed to init
MaxDesired == 3   \* largest `desired` passed to get
MaxStamp   == 3   \* total number of bytes the consumer writes in a run
MaxSize    == 2   \* largest logical size passed to init_ext / group_open
MaxExtQueue == 1  \* largest queue length under an extended writer
MaxCalls   == 6   \* number of calls in a run of the upper layers
MaxBody    == 1   \* largest handshake body; room for it in a record
MaxL3Calls == 4   \* number of calls in a run of the Layer 3 system
MaxHsCalls == 9   \* number of calls in the writing of one handshake message

\* ------------------------------------------------------------- constants
PROVIDING == "PROVIDING"
CONSUMING == "CONSUMING"
NULL      == "NULL"
OK                   == "0"
DATA_LEFT            == "DATA_LEFT"
INVALID_ARG          == "INVALID_ARG"
NEED_MORE            == "NEED_MORE"
OPERATION_UNEXPECTED == "OPERATION_UNEXPECTED"
OUT_OF_DATA          == "OUT_OF_DATA"
\* Width of mbedtls_mps_size_t used by the overflow test of get.
SIZE_MOD == 65536

Min(a, b) == IF a < b THEN a ELSE b

VARIABLES
  wr,      \* struct mbedtls_writer
  buf,     \* contents of the buffer most recently passed to feed
  queue,   \* contents of the queue buffer
  last,    \* the most recent call: operation, arguments, return code, outputs
  pend,    \* stamps the consumer wrote at virtual offsets committed .. end-1
  stream,  \* stamps committed by the consumer so far, in commit order
  sent,    \* concatenation of the committed prefixes of the buffers reclaimed
  cyc,     \* per feed-to-reclaim cycle bookkeeping
  owed,    \* committed stamps reported as queued and not yet copied by feed
  nstamp,  \* number of stamps handed out so far
  ext,     \* struct mbedtls_writer_ext (its field wr is NULL or "wr")
  l3,      \* struct mps_l3
  l2,      \* what Layer 2 has lent to Layer 3
  xlast    \* the most recent extended-writer or Layer 3 call

vars == <<wr, buf, queue, last, pend, stream, sent, cyc, owed, nstamp,
          ext, l3, l2, xlast>>

\* The variables of the layers above the writer.
xvars == <<ext, l3, l2, xlast>>

\* ------------------------------------------------------- mbedtls_writer_init
mbedtls_writer_init(q, queue_len) ==
  [ state |-> PROVIDING, out |-> NULL, queue |-> q,
    out_len |-> 0, queue_len |-> queue_len,
    committed |-> 0, end |-> 0, queue_next |-> 0, queue_remaining |-> 0 ]

\* MBEDTLS_MPS_STATE_VALIDATE_RAW( cond, msg ): leave the function with
\* OPERATION_UNEXPECTED, the object untouched, unless cond holds.
MBEDTLS_MPS_STATE_VALIDATE_RAW(cond) == IF cond THEN OK ELSE OPERATION_UNEXPECTED

\* ------------------------------------------------------- mbedtls_writer_feed
\* The queue still holds data after the copy: record what is left.
feed_more_pending_nonext(w, qr, qa, copy_from_queue) ==
  [w EXCEPT !.queue_remaining = qr]

feed_more_pending_same_remaining(w, qr, qa, copy_from_queue) ==
  [w EXCEPT !.queue_next = qa + copy_from_queue]

feed_more_pending(w, qr, qa, copy_from_queue) ==
  [w EXCEPT !.queue_remaining = qr, !.queue_next = qa + copy_from_queue]

\* w: writer, q: queue contents, b: contents of the buffer being fed.
\* Result: return code, writer, buffer contents, bytes copied from the queue.
mbedtls_writer_feed(w, q, b) ==
  IF MBEDTLS_MPS_STATE_VALIDATE_RAW(w.state = PROVIDING) # OK
  THEN [ret |-> OPERATION_UNEXPECTED, wr |-> w, buf |-> b, copied |-> 0]
  ELSE
    LET buf_len == Len(b)
        qr0 == w.queue_remaining
        qa0 == w.queue_next
        copy_from_queue == IF w.queue # NULL THEN Min(qr0, buf_len) ELSE 0
        \* memcpy( buf, queue + qa, copy_from_queue )
        b1 == [i \in 1..buf_len |->
                 IF i <= copy_from_queue THEN q[qa0 + i] ELSE b[i]]
        qr == qr0 - copy_from_queue
    IN IF w.queue # NULL /\ qr > 0
       THEN [ret |-> NEED_MORE,
             wr  |-> feed_more_pending(w, qr, qa0, copy_from_queue),
             buf |-> b1, copied |-> copy_from_queue]
       ELSE [ret |-> OK,
             wr  |-> [w EXCEPT !.queue_next = IF w.queue # NULL THEN 0 ELSE @,
                               !.queue_remaining = IF w.queue # NULL THEN 0 ELSE @,
                               !.out = "buf",
                               !.out_len = buf_len,
                               !.committed = copy_from_queue,
                               !.end = copy_from_queue,
                               !.state = CONSUMING],
             buf |-> b1, copied |-> copy_from_queue]

\* ----------------------------------------------------- mbedtls_writer_reclaim
\* The value stored to *olen.
reclaim_olen_full(commit, ol) == ol

reclaim_olen(commit, ol) == IF commit <= ol THEN commit ELSE ol

\* The test that refuses to reclaim a buffer with space left.
reclaim_data_left_le(commit, ol, force) == commit <= ol /\ force = 0

reclaim_data_left(commit, ol, force) == commit < ol /\ force = 0

\* Result: return code, writer, *olen, *queued.
mbedtls_writer_reclaim(w, force) ==
  IF MBEDTLS_MPS_STATE_VALIDATE_RAW(w.state = CONSUMING) # OK
  THEN [ret |-> OPERATION_UNEXPECTED, wr |-> w, olen |-> 0, queued |-> 0]
  ELSE
    LET commit == w.committed
        ol     == w.out_len
        \* the commit <= ol branch up to the DATA_LEFT test, or the else branch
        w1 == IF commit <= ol
              THEN [w EXCEPT !.queue_next = 0]
              ELSE [w EXCEPT !.queue_remaining = commit - ol]
    IN IF commit <= ol /\ reclaim_data_left(commit, ol, force)
       THEN [ret |-> DATA_LEFT, wr |-> [w1 EXCEPT !.end = commit],
             olen |-> reclaim_olen(commit, ol), queued |-> 0]
       ELSE [ret |-> OK,
             wr  |-> [w1 EXCEPT !.end = 0, !.committed = 0, !.out = NULL,
                                !.out_len = 0, !.state = PROVIDING],
             olen |-> reclaim_olen(commit, ol),
             queued |-> w1.queue_remaining]

\* ----------------------------------------------- mbedtls_writer_bytes_written
mbedtls_writer_bytes_written(w) ==
  IF MBEDTLS_MPS_STATE_VALIDATE_RAW(w.state = PROVIDING) # OK
  THEN [ret |-> OPERATION_UNEXPECTED, written |-> 0]
  ELSE [ret |-> OK, written |-> w.committed]

\* --------------------------------------------------------- mbedtls_writer_get
\* has_buflen: buflen != NULL.  Result: return code, writer, the slice handed
\* out (*buffer as base and offset) and its length.
NoSlice == [base |-> NULL, ofs |-> 0, len |-> 0]

\* Offset in the queue of the next byte to hand out while serving from it.
get_queue_offset_overlap(w) == w.queue_next

get_queue_offset(w) == w.queue_next + (w.end - w.out_len)

\* Branch end > out_len: continue serving from the queue.
get_continue_queue_strict(w, desired, has_buflen) ==
  LET ql == w.queue_len
      qo == get_queue_offset(w)
  IN IF ql - qo < desired
     THEN [ret |-> OUT_OF_DATA, wr |-> w, slice |-> NoSlice]
     ELSE [ret |-> OK, wr |-> [w EXCEPT !.end = w.end + desired],
           slice |-> [base |-> "queue", ofs |-> qo, len |-> desired]]

get_continue_queue(w, desired, has_buflen) ==
  LET ql == w.queue_len
      qo == get_queue_offset(w)
  IN IF ql - qo < desired /\ ~has_buflen
     THEN [ret |-> OUT_OF_DATA, wr |-> w, slice |-> NoSlice]
     ELSE LET d == IF ql - qo < desired THEN ql - qo ELSE desired
          IN [ret |-> OK, wr |-> [w EXCEPT !.end = w.end + d],
              slice |-> [base |-> "queue", ofs |-> qo, len |-> d]]

\* Branch queue != NULL && ql > or: transition to serving from the queue.
get_switch_to_queue_noclamp(w, desired, has_buflen) ==
  LET end == w.end
      or  == w.out_len - w.end
      overflow == ((end + desired) % SIZE_MOD) < end
  IN IF overflow
     THEN [ret |-> OUT_OF_DATA, wr |-> w, slice |-> NoSlice]
     ELSE [ret |-> OK,
           wr |-> [w EXCEPT !.end = end + desired, !.queue_next = or],
           slice |-> [base |-> "queue", ofs |-> 0, len |-> desired]]

get_switch_to_queue(w, desired, has_buflen) ==
  LET end == w.end
      ql  == w.queue_len
      or  == w.out_len - w.end
      d   == IF has_buflen /\ desired > ql THEN ql ELSE desired
      overflow == ((end + d) % SIZE_MOD) < end
  IN IF overflow \/ d > ql
     THEN [ret |-> OUT_OF_DATA, wr |-> w, slice |-> NoSlice]
     ELSE [ret |-> OK,
           wr |-> [w EXCEPT !.end = end + d, !.queue_next = or],
           slice |-> [base |-> "queue", ofs |-> 0, len |-> d]]

mbedtls_writer_get(w, desired, has_buflen) ==
  IF MBEDTLS_MPS_STATE_VALIDATE_RAW(w.state = CONSUMING) # OK
  THEN [ret |-> OPERATION_UNEXPECTED, wr |-> w, slice |-> NoSlice]
  ELSE
    LET end == w.end
        ol  == w.out_len
        ql  == w.queue_len
        or  == ol - end
    IN IF end > ol
       THEN get_continue_queue(w, desired, has_buflen)
       ELSE IF or < desired
            THEN IF w.queue # NULL /\ ql > or
                 THEN get_switch_to_queue(w, desired, has_buflen)
                 ELSE IF ~has_buflen
                      THEN [ret |-> OUT_OF_DATA, wr |-> w, slice |-> NoSlice]
                      ELSE [ret |-> OK, wr |-> [w EXCEPT !.end = end + or],
                            slice |-> [base |-> "out", ofs |-> end, len |-> or]]
            ELSE [ret |-> OK, wr |-> [w EXCEPT !.end = end + desired],
                  slice |-> [base |-> "out", ofs |-> end, len |-> desired]]

\* ---------------------------------------------- mbedtls_writer_commit_partial
\* Number of bytes copied from the beginning of the queue to the end of the
\* out buffer when a commit crosses from out into the queue.
commit_copy_from_queue_none(w, to_be_committed) == 0

commit_copy_from_queue_unclamped(w, to_be_committed) ==
  IF /\ w.end > w.out_len
     /\ w.committed < w.out_len
     /\ to_be_committed > w.out_len - w.queue_next
  THEN to_be_committed - (w.out_len - w.queue_next)
  ELSE 0

commit_copy_from_queue(w, to_be_committed) ==
  IF /\ w.end > w.out_len
     /\ w.committed < w.out_len
     /\ to_be_committed > w.out_len - w.queue_next
  THEN Min(to_be_committed - (w.out_len - w.queue_next), w.queue_next)
  ELSE 0

\* queue_next after the commit.
commit_queue_next_keep(w, to_be_committed) == w.queue_next

commit_queue_next(w, to_be_committed) ==
  IF to_be_committed < w.out_len THEN 0 ELSE w.queue_next

mbedtls_writer_commit_partial_keeps_end(w, q, b, omit) ==
  IF MBEDTLS_MPS_STATE_VALIDATE_RAW(w.state = CONSUMING) # OK
  THEN [ret |-> OPERATION_UNEXPECTED, wr |-> w, buf |-> b]
  ELSE IF omit > w.end - w.committed
  THEN [ret |-> INVALID_ARG, wr |-> w, buf |-> b]
  ELSE [ret |-> OK, wr |-> [w EXCEPT !.committed = w.end - omit], buf |-> b]

\* Result: return code, writer, contents of the out buffer.
mbedtls_writer_commit_partial(w, q, b, omit) ==
  IF MBEDTLS_MPS_STATE_VALIDATE_RAW(w.state = CONSUMING) # OK
  THEN [ret |-> OPERATION_UNEXPECTED, wr |-> w, buf |-> b]
  ELSE
    LET queue_overlap == w.queue_next
        commit  == w.committed
        end     == w.end
        out_len == w.out_len
    IN IF omit > end - commit
       THEN [ret |-> INVALID_ARG, wr |-> w, buf |-> b]
       ELSE
         LET to_be_committed == end - omit
             copy_from_queue == commit_copy_from_queue(w, to_be_committed)
             \* memcpy( out + out_len - queue_overlap, queue, copy_from_queue )
             b1 == [i \in 1..Len(b) |->
                      IF /\ i > out_len - queue_overlap
                         /\ i <= out_len - queue_overlap + copy_from_queue
                      THEN q[i - (out_len - queue_overlap)] ELSE b[i]]
         IN [ret |-> OK,
             wr  |-> [w EXCEPT !.queue_next = commit_queue_next(w, to_be_committed),
                               !.end = to_be_committed,
                               !.committed = to_be_committed],
             buf |-> b1]

mbedtls_writer_commit(w, q, b) == mbedtls_writer_commit_partial(w, q, b, 0)
\* ------------------------------------------------------- extended writer
PASS  == "PASS"
HOLD  == "HOLD"
BLOCK == "BLOCK"
BOUNDS_VIOLATION == "BOUNDS_VIOLATION"
TOO_MANY_GROUPS  == "TOO_MANY_GROUPS"
NO_GROUP         == "NO_GROUP"
MBEDTLS_WRITER_MAX_GROUPS == 5
\* Largest value of mbedtls_mps_size_t.
MBEDTLS_MPS_SIZE_MAX == SIZE_MOD - 1

\* grp_end[i + 1] here is grp_end[i] in the code.
mbedtls_writer_init_ext(size) ==
  [wr |-> NULL,
   grp_end |-> [i \in 1..MBEDTLS_WRITER_MAX_GROUPS |-> IF i = 1 THEN size ELSE 0],
   cur_grp |-> 0, ofs_fetch |-> 0, ofs_commit |-> 0, passthrough |-> PASS]

mbedtls_writer_free_ext == mbedtls_writer_init_ext(0)

\* Space left in the current group, in unsigned arithmetic.
logic_avail(e) == (e.grp_end[e.cur_grp + 1] - e.ofs_fetch) % SIZE_MOD

get_ext_in_bounds_any(e, desired) == TRUE

get_ext_in_bounds(e, desired) == ~(desired > logic_avail(e))

mbedtls_writer_get_ext(e, w, desired, has_buflen) ==
  LET fail(rc) == [ret |-> rc, ext |-> e, wr |-> w, slice |-> NoSlice]
      r == mbedtls_writer_get(w, desired, has_buflen)
  IN IF MBEDTLS_MPS_STATE_VALIDATE_RAW(e.wr # NULL) # OK
     THEN fail(OPERATION_UNEXPECTED)
     ELSE IF MBEDTLS_MPS_STATE_VALIDATE_RAW(e.passthrough # BLOCK) # OK
     THEN fail(OPERATION_UNEXPECTED)
     ELSE IF ~get_ext_in_bounds(e, desired)
     THEN fail(BOUNDS_VIOLATION)
     ELSE IF r.ret # OK
     THEN [ret |-> r.ret, ext |-> e, wr |-> r.wr, slice |-> NoSlice]
     ELSE [ret |-> OK,
           ext |-> [e EXCEPT !.ofs_fetch = (@ + r.slice.len) % SIZE_MOD],
           wr |-> r.wr, slice |-> r.slice]

commit_ext_forwards_hold(e) == TRUE

commit_ext_forwards(e) == e.passthrough = PASS

commit_ext_blocks_never(e, omit) == FALSE

commit_ext_blocks(e, omit) == e.passthrough = HOLD /\ omit > 0

mbedtls_writer_commit_partial_ext_keeps_cursors(e, w, q, b, omit) ==
  LET fail(rc) == [ret |-> rc, ext |-> e, wr |-> w, buf |-> b]
      r == mbedtls_writer_commit_partial(w, q, b, omit)
  IN IF MBEDTLS_MPS_STATE_VALIDATE_RAW(e.wr # NULL) # OK
     THEN fail(OPERATION_UNEXPECTED)
     ELSE IF MBEDTLS_MPS_STATE_VALIDATE_RAW(e.passthrough # BLOCK) # OK
     THEN fail(OPERATION_UNEXPECTED)
     ELSE IF omit > (e.ofs_fetch - e.ofs_commit) % SIZE_MOD
     THEN fail(BOUNDS_VIOLATION)
     ELSE IF commit_ext_forwards(e) /\ r.ret # OK
     THEN [ret |-> r.ret, ext |-> e, wr |-> r.wr, buf |-> r.buf]
     ELSE [ret |-> OK,
           ext |-> [e EXCEPT !.passthrough =
                               IF commit_ext_blocks(e, omit) THEN BLOCK ELSE @],
           wr |-> IF commit_ext_forwards(e) THEN r.wr ELSE w,
           buf |-> IF commit_ext_forwards(e) THEN r.buf ELSE b]

mbedtls_writer_commit_partial_ext(e, w, q, b, omit) ==
  LET fail(rc) == [ret |-> rc, ext |-> e, wr |-> w, buf |-> b]
      ofs_commit == (e.ofs_fetch - omit) % SIZE_MOD
      r == mbedtls_writer_commit_partial(w, q, b, omit)
      ofs_fetch == IF commit_ext_forwards(e) THEN ofs_commit ELSE e.ofs_fetch
  IN IF MBEDTLS_MPS_STATE_VALIDATE_RAW(e.wr # NULL) # OK
     THEN fail(OPERATION_UNEXPECTED)
     ELSE IF MBEDTLS_MPS_STATE_VALIDATE_RAW(e.passthrough # BLOCK) # OK
     THEN fail(OPERATION_UNEXPECTED)
     ELSE IF omit > (e.ofs_fetch - e.ofs_commit) % SIZE_MOD
     THEN fail(BOUNDS_VIOLATION)
     ELSE IF commit_ext_forwards(e) /\ r.ret # OK
     THEN [ret |-> r.ret, ext |-> e, wr |-> r.wr, buf |-> r.buf]
     ELSE [ret |-> OK,
           ext |-> [e EXCEPT !.passthrough =
                               IF commit_ext_blocks(e, omit) THEN BLOCK ELSE @,
                             !.ofs_fetch = ofs_fetch,
                             !.ofs_commit = ofs_commit],
           wr |-> IF commit_ext_forwards(e) THEN r.wr ELSE w,
           buf |-> IF commit_ext_forwards(e) THEN r.buf ELSE b]

mbedtls_writer_commit_ext(e, w, q, b) ==
  mbedtls_writer_commit_partial_ext(e, w, q, b, 0)

group_open_fits_any(e, group_size) == TRUE

group_open_fits(e, group_size) == ~(logic_avail(e) < group_size)

group_open_has_slot_always(e) == TRUE

group_open_has_slot(e) == ~(e.cur_grp >= MBEDTLS_WRITER_MAX_GROUPS - 1)

mbedtls_writer_group_open_counts_first(e, group_size) ==
  IF ~group_open_has_slot(e)
  THEN [ret |-> TOO_MANY_GROUPS, ext |-> [e EXCEPT !.cur_grp = @ + 1]]
  ELSE IF ~group_open_fits(e, group_size)
  THEN [ret |-> BOUNDS_VIOLATION, ext |-> e]
  ELSE [ret |-> OK,
        ext |-> [e EXCEPT !.cur_grp = @ + 1,
                          !.grp_end[e.cur_grp + 2] =
                              (e.ofs_fetch + group_size) % SIZE_MOD]]

mbedtls_writer_group_open(e, group_size) ==
  IF ~group_open_has_slot(e)
  THEN [ret |-> TOO_MANY_GROUPS, ext |-> e]
  ELSE IF ~group_open_fits(e, group_size)
  THEN [ret |-> BOUNDS_VIOLATION, ext |-> e]
  ELSE [ret |-> OK,
        ext |-> [e EXCEPT !.cur_grp = @ + 1,
                          !.grp_end[e.cur_grp + 2] =
                              (e.ofs_fetch + group_size) % SIZE_MOD]]

mbedtls_writer_group_close(e) ==
  IF logic_avail(e) # 0
  THEN [ret |-> BOUNDS_VIOLATION, ext |-> e]
  ELSE [ret |-> OK,
        ext |-> IF e.cur_grp > 0 THEN [e EXCEPT !.cur_grp = @ - 1] ELSE e]

mbedtls_writer_attach(e, pass) ==
  IF MBEDTLS_MPS_STATE_VALIDATE_RAW(e.wr = NULL) # OK
  THEN [ret |-> OPERATION_UNEXPECTED, ext |-> e]
  ELSE [ret |-> OK, ext |-> [e EXCEPT !.passthrough = pass, !.wr = "wr"]]

mbedtls_writer_detach_all_committed(e) ==
  IF MBEDTLS_MPS_STATE_VALIDATE_RAW(e.wr # NULL) # OK
  THEN [ret |-> OPERATION_UNEXPECTED, ext |-> e,
        committed |-> 0, uncommitted |-> 0]
  ELSE [ret |-> OK,
        ext |-> [e EXCEPT !.ofs_fetch = e.ofs_commit, !.wr = NULL],
        committed |-> e.ofs_commit,
        uncommitted |-> 0]

mbedtls_writer_detach(e) ==
  IF MBEDTLS_MPS_STATE_VALIDATE_RAW(e.wr # NULL) # OK
  THEN [ret |-> OPERATION_UNEXPECTED, ext |-> e,
        committed |-> 0, uncommitted |-> 0]
  ELSE [ret |-> OK,
        ext |-> [e EXCEPT !.ofs_fetch = e.ofs_commit, !.wr = NULL],
        committed |-> e.ofs_commit,
        uncommitted |-> (e.ofs_fetch - e.ofs_commit) % SIZE_MOD]

mbedtls_writer_check_done_ignores_groups(e) ==
  IF e.grp_end[1] # MBEDTLS_MPS_SIZE_MAX /\ e.ofs_commit # e.grp_end[1]
  THEN BOUNDS_VIOLATION
  ELSE OK

mbedtls_writer_check_done(e) ==
  IF e.cur_grp > 0
  THEN BOUNDS_VIOLATION
  ELSE IF e.grp_end[1] # MBEDTLS_MPS_SIZE_MAX /\ e.ofs_commit # e.grp_end[1]
  THEN BOUNDS_VIOLATION
  ELSE OK

\* ---------------------------------------------------------------- Layer 3
\* Message types and handshake substates.
MSG_NONE  == "NONE"
MSG_HS    == "HS"
MSG_ALERT == "ALERT"
MSG_CCS   == "CCS"
MSG_APP   == "APP"
MSG_ACK   == "ACK"
HS_NONE   == "HS_NONE"
HS_ACTIVE == "HS_ACTIVE"
HS_PAUSED == "HS_PAUSED"
TLS  == "TLS"
DTLS == "DTLS"
RETRY             == "RETRY"
INVALID_ARGS      == "INVALID_ARGS"
NO_INTERLEAVING   == "NO_INTERLEAVING"
INTERNAL_ERROR    == "INTERNAL_ERROR"
INVALID_CONTENT   == "INVALID_CONTENT"
UNFINISHED_HS_MSG == "UNFINISHED_HS_MSG"
READER_OUT_OF_DATA == "READER_OUT_OF_DATA"
\* Any failure reported by Layer 2.
L2_ERROR == "L2_ERROR"
MBEDTLS_MPS_SIZE_UNKNOWN == MBEDTLS_MPS_SIZE_MAX
MPS_TLS_HS_HDR_SIZE  == 4
MPS_TLS_ALERT_SIZE   == 2
MPS_TLS_CCS_SIZE     == 1
MPS_DTLS_HS_HDR_SIZE == 13

\* io.in is written inp here.
mps_l3_init(mode) ==
  [conf |-> [mode |-> mode],
   inp |-> [state |-> MSG_NONE, raw_in |-> NULL,
            hs |-> [state |-> HS_NONE, epoch |-> 0, type |-> 0, len |-> 0,
                    seq_nr |-> 0, frag_offset |-> 0, frag_len |-> 0]],
   out |-> [state |-> MSG_NONE, raw_out |-> NULL, clearing |-> 0,
            hs |-> [state |-> HS_NONE, epoch |-> 0, type |-> 0, len |-> 0,
                    seq_nr |-> 0, frag_len |-> 0, frag_offset |-> 0,
                    hdr |-> NULL, hdr_ofs |-> 0, hdr_len |-> 0]]]

\* Layer 2 lends at most one writer and one reader at a time.
mps_l2_init == [out_open |-> FALSE, in_open |-> FALSE]

\* n counts the calls made so far in the run; l2 lists the Layer 2 calls
\* the operation made, each with its result; differs tells whether the
\* (epoch, type, len) passed to write_handshake differ from the stored ones.
\* fresh and base are kept from the last successful write_handshake: whether
\* it started a new message, and the committed offset of the raw writer
\* when it was called.
\* grp_start is the fetch offset at which the last group was opened, kept
\* while that group is the current one, and -1 otherwise.
NoXCall == [op |-> "init", rc |-> OK, desired |-> 0, len |-> 0, omit |-> 0,
            differs |-> FALSE, l2 |-> <<>>, n |-> 0,
            fresh |-> FALSE, base |-> 0, grp_start |-> -1]

\* No mode is configured where the writers are used without a Layer 3.
CallsLeft == l3.conf.mode = NULL /\ xlast.n < MaxCalls

L3CallsLeft == l3.conf.mode # NULL /\ xlast.n < MaxL3Calls

XCall(op, rc) ==
  LET started == op = "write_handshake" /\ rc = OK
  IN [NoXCall EXCEPT !.op = op, !.rc = rc, !.n = xlast.n + 1,
                     !.fresh = IF started THEN l3.out.hs.state = HS_NONE
                               ELSE xlast.fresh,
                     !.base = IF started THEN wr.committed ELSE xlast.base,
                     !.grp_start =
                        IF op = "group_open" /\ rc = OK THEN ext.ofs_fetch
                        ELSE IF \/ op \in {"group_open", "get_ext", "commit_ext",
                                           "attach", "detach", "feed",
                                           "reclaim", "check_done"}
                                \/ op = "group_close" /\ rc # OK
                        THEN xlast.grp_start
                        ELSE -1]

\* The layers above the writer are not in use.
Unused ==
  /\ ext = mbedtls_writer_init_ext(0)
  /\ l3 = mps_l3_init(NULL)
  /\ l2 = mps_l2_init
  /\ xlast = NoXCall

\* ------------------------------------------------------------------ calls
NoCall == [op |-> "init", rc |-> OK, buf_len |-> 0, copied |-> 0,
           desired |-> 0, has_buflen |-> FALSE, slice |-> NoSlice,
           omit |-> 0, force |-> 0, olen |-> 0, queued |-> 0, written |-> 0]

Zeros(n) == [i \in 1..n |-> 0]

Init ==
  /\ \E q \in {NULL, "queue"}, queue_len \in 0..MaxQueue :
       /\ wr = mbedtls_writer_init(q, queue_len)
       /\ queue = IF q = NULL THEN <<>> ELSE Zeros(queue_len)
  /\ buf = <<>>
  /\ last = NoCall
  /\ pend = <<>>
  /\ stream = <<>>
  /\ sent = <<>>
  /\ cyc = [copied |-> 0, consumer |-> 0]
  /\ owed = <<>>
  /\ nstamp = 0
  /\ Unused

\* The provider feeds a buffer of buf_len bytes.  A buffer filled by a
\* NEED_MORE feed is dispatched whole by the provider.
Feed ==
  \E buf_len \in 0..MaxBuf :
    LET r == mbedtls_writer_feed(wr, queue, IF wr.state = PROVIDING
                                            THEN Zeros(buf_len) ELSE buf)
    IN /\ wr' = r.wr
       /\ buf' = r.buf
       /\ last' = [NoCall EXCEPT !.op = "feed", !.rc = r.ret,
                                 !.buf_len = buf_len, !.copied = r.copied]
       /\ sent' = IF r.ret = NEED_MORE THEN sent \o r.buf ELSE sent
       /\ cyc' = IF r.ret = OK THEN [copied |-> r.copied, consumer |-> 0] ELSE cyc
       /\ owed' = IF r.ret = OPERATION_UNEXPECTED THEN owed
                  ELSE SubSeq(owed, r.copied + 1, Len(owed))
       /\ UNCHANGED <<queue, pend, stream, nstamp>>
       /\ UNCHANGED xvars

\* The consumer requests a slice and stamps every byte of it.
Get ==
  \E desired \in 0..MaxDesired, has_buflen \in BOOLEAN :
    LET r == mbedtls_writer_get(wr, desired, has_buflen)
        s == r.slice
        stamps == [i \in 1..s.len |-> nstamp + i]
        Fill(m) == [i \in 1..Len(m) |->
                      IF i > s.ofs /\ i <= s.ofs + s.len
                      THEN stamps[i - s.ofs] ELSE m[i]]
    IN /\ nstamp + s.len <= MaxStamp
       /\ wr' = r.wr
       /\ buf' = IF s.base = "out" THEN Fill(buf) ELSE buf
       /\ queue' = IF s.base = "queue" THEN Fill(queue) ELSE queue
       /\ pend' = pend \o stamps
       /\ nstamp' = nstamp + s.len
       /\ last' = [NoCall EXCEPT !.op = "get", !.rc = r.ret,
                                 !.desired = desired,
                                 !.has_buflen = has_buflen, !.slice = s]
       /\ UNCHANGED <<stream, sent, cyc, owed>>
       /\ UNCHANGED xvars

\* The consumer commits all it fetched except the last `omit` bytes.
Commit ==
  \E omit \in 0..MaxDesired :
    LET r == mbedtls_writer_commit_partial(wr, queue, buf, omit)
        n == r.wr.committed - wr.committed
    IN /\ wr' = r.wr
       /\ buf' = r.buf
       /\ last' = [NoCall EXCEPT !.op = "commit", !.rc = r.ret, !.omit = omit]
       /\ IF r.ret = OK
          THEN /\ stream' = stream \o SubSeq(pend, 1, n)
               /\ pend' = <<>>
               /\ cyc' = [cyc EXCEPT !.consumer = @ + n]
          ELSE UNCHANGED <<stream, pend, cyc>>
       /\ UNCHANGED <<queue, sent, owed, nstamp>>
       /\ UNCHANGED xvars

\* The provider takes the buffer back and dispatches its first *olen bytes.
Reclaim ==
  \E force \in {0, 1} :
    LET r == mbedtls_writer_reclaim(wr, force)
    IN /\ wr' = r.wr
       /\ last' = [NoCall EXCEPT !.op = "reclaim", !.rc = r.ret,
                                 !.force = force, !.olen = r.olen,
                                 !.queued = r.queued]
       /\ sent' = IF r.ret = OK THEN sent \o SubSeq(buf, 1, r.olen) ELSE sent
       /\ owed' = IF r.ret = OK
                  THEN SubSeq(stream, Len(stream) - r.queued + 1, Len(stream))
                  ELSE owed
       /\ pend' = IF r.ret = OPERATION_UNEXPECTED THEN pend ELSE <<>>
       /\ UNCHANGED <<buf, queue, stream, cyc, nstamp>>
       /\ UNCHANGED xvars

BytesWritten ==
  LET r == mbedtls_writer_bytes_written(wr)
  IN /\ last' = [NoCall EXCEPT !.op = "bytes_written", !.rc = r.ret,
                               !.written = r.written]
     /\ UNCHANGED <<wr, buf, queue, pend, stream, sent, cyc, owed, nstamp>>
     /\ UNCHANGED xvars

Next == Feed \/ Get \/ Commit \/ Reclaim \/ BytesWritten

Spec == Init /\ [][Next]_vars

\* ------------------------------------------------------------ data layout
\* Byte i (1-based) of the virtual region out || queue, as the code lays it
\* out once it is committed: the first out_len bytes live in the out buffer,
\* the following ones in the queue behind the overlap queue_next.
Virtual(i) ==
  IF i <= wr.out_len THEN buf[i] ELSE queue[wr.queue_next + (i - wr.out_len)]

\* Committed bytes the writer still holds: in consuming state the committed
\* part of the virtual region, in providing state the pending queue bytes.
Held ==
  IF wr.state = CONSUMING
  THEN [i \in 1..wr.committed |-> Virtual(i)]
  ELSE [i \in 1..wr.queue_remaining |-> queue[wr.queue_next + i]]

\* C1: the committed prefixes of all buffers handed back so far (reclaimed
\* buffers and buffers filled by a NEED_MORE feed), followed by the committed
\* bytes the writer still holds, are exactly the bytes the consumer
\* committed, in order.
C1_CommittedStreamPreserved == sent \o Held = stream

C1_Witness ==
  /\ last.op = "feed" /\ last.rc = NEED_MORE /\ last.copied >= 1
  /\ Len(sent) >= 2

\* C2 (as stated): after a successful reclaim, written + queued equals the
\* number of bytes the consumer committed during that cycle.
C2_Original ==
  (last.op = "reclaim" /\ last.rc = OK)
     => last.olen + last.queued = cyc.consumer

\* C2 (amended): after a successful reclaim, written + queued equals the
\* bytes the consumer committed during the cycle plus the bytes the cycle's
\* feed copied from the queue.
C2_WrittenPlusQueued ==
  (last.op = "reclaim" /\ last.rc = OK)
     => last.olen + last.queued = cyc.copied + cyc.consumer

C2_Witness ==
  /\ last.op = "reclaim" /\ last.rc = OK
  /\ cyc.copied > 0 /\ cyc.consumer > 0 /\ last.queued > 0

\* C3: a feed in providing state copies the first min(q, len) owed bytes,
\* in order, to the start of the fed buffer, and the next feed continues
\* behind them; q, the reported queued count, is the number of owed bytes.
C3_FeedDeliversQueued ==
  [][ (last'.op = "feed" /\ last'.rc # OPERATION_UNEXPECTED) =>
        LET n == Min(Len(owed), last'.buf_len)
        IN /\ Len(owed) = wr.queue_remaining
           /\ SubSeq(buf', 1, n) = SubSeq(owed, 1, n)
           /\ owed' = SubSeq(owed, n + 1, Len(owed))
           /\ Len(owed') = wr'.queue_remaining ]_vars

C3_Witness ==
  /\ last.op = "feed" /\ last.rc = OK /\ last.copied >= 1
  /\ Len(sent) >= 1 /\ wr.out_len > last.copied

\* C4: in consuming state get with buflen != NULL always succeeds and
\* serves between 0 and desired bytes.
C4_GetWithBuflenSucceeds ==
  (last.op = "get" /\ last.has_buflen /\ last.rc # OPERATION_UNEXPECTED)
     => /\ last.rc = OK
        /\ last.slice.len >= 0
        /\ last.slice.len <= last.desired

C4_Witness ==
  /\ last.op = "get" /\ last.has_buflen /\ last.rc = OK
  /\ last.slice.len < last.desired

\* C5: in consuming state get with buflen = NULL succeeds iff a contiguous
\* region of exactly `desired` bytes exists, and otherwise fails with
\* OUT_OF_DATA leaving the writer unchanged.
C5_Room(w, d) ==
  \/ d <= w.out_len - w.end
  \/ /\ w.end <= w.out_len
     /\ w.queue # NULL
     /\ w.queue_len > w.out_len - w.end
     /\ d <= w.queue_len
  \/ /\ w.end > w.out_len
     /\ d <= w.queue_len - (w.queue_next + w.end - w.out_len)

C5_ExactGet ==
  [][ (wr.state = CONSUMING /\ last'.op = "get" /\ ~last'.has_buflen) =>
        /\ (last'.rc = OK) <=> C5_Room(wr, last'.desired)
        /\ last'.rc = OK => last'.slice.len = last'.desired
        /\ last'.rc # OK =>
             /\ last'.rc = OUT_OF_DATA
             /\ wr' = wr /\ buf' = buf /\ queue' = queue ]_vars

C5_Witness ==
  /\ last.op = "get" /\ ~last.has_buflen /\ last.rc = OUT_OF_DATA
  /\ wr.queue # NULL /\ wr.end > wr.out_len

\* C6: in consuming state committed <= end <= out_len + queue_len, where
\* queue_len counts only if a queue is configured.
C6_Offsets ==
  wr.state = CONSUMING =>
    /\ wr.committed <= wr.end
    /\ wr.end <= wr.out_len + (IF wr.queue # NULL THEN wr.queue_len ELSE 0)

C6_Witness ==
  /\ wr.state = CONSUMING /\ wr.out_len > 0 /\ wr.queue_len > 0
  /\ wr.end = wr.out_len + wr.queue_len /\ wr.committed < wr.end

C9_NeedMoreWhenBufferFilled ==
  (last.op = "feed" /\ last.rc # OPERATION_UNEXPECTED
     /\ last.buf_len > 0 /\ last.copied = last.buf_len)
     => last.rc = NEED_MORE

\* C10: bytes_written is valid only in providing state and, right after a
\* successful reclaim, reports the number of bytes written to the buffer
\* that was just reclaimed.
C10_BytesWrittenAfterReclaim ==
  [][ /\ (last'.op = "bytes_written" /\ wr.state # PROVIDING)
           => last'.rc = OPERATION_UNEXPECTED
      /\ (last.op = "reclaim" /\ last.rc = OK /\ last'.op = "bytes_written")
           => (last'.rc = OK /\ last'.written = last.olen) ]_vars

\* ======================================================= extended writer
\* The extended writer on top of the writer: a provider feeds and reclaims
\* the underlying writer, a consumer works through the extended writer.
\* The bookkeeping of the byte-level specification is not used here.
ghost == <<last, pend, stream, sent, cyc, owed, nstamp>>
upper == <<l3, l2>>

InitExt ==
  /\ \E q \in {NULL, "queue"}, queue_len \in 0..MaxExtQueue :
       /\ wr = mbedtls_writer_init(q, queue_len)
       /\ queue = IF q = NULL THEN <<>> ELSE Zeros(queue_len)
  /\ buf = <<>>
  /\ last = NoCall
  /\ pend = <<>>
  /\ stream = <<>>
  /\ sent = <<>>
  /\ cyc = [copied |-> 0, consumer |-> 0]
  /\ owed = <<>>
  /\ nstamp = 0
  /\ \E size \in 0..MaxSize : ext = mbedtls_writer_init_ext(size)
  /\ l3 = mps_l3_init(NULL)
  /\ l2 = mps_l2_init
  /\ xlast = NoXCall

ExtFeed ==
  \E buf_len \in 0..MaxBuf :
    LET r == mbedtls_writer_feed(wr, queue, IF wr.state = PROVIDING
                                            THEN Zeros(buf_len) ELSE buf)
    IN /\ CallsLeft
       /\ wr' = r.wr
       /\ buf' = r.buf
       /\ xlast' = XCall("feed", r.ret)
       /\ UNCHANGED <<queue, ext>>
       /\ UNCHANGED <<ghost, upper>>

ExtReclaim ==
  \E force \in {0, 1} :
    LET r == mbedtls_writer_reclaim(wr, force)
    IN /\ CallsLeft
       /\ wr' = r.wr
       /\ xlast' = XCall("reclaim", r.ret)
       /\ UNCHANGED <<buf, queue, ext>>
       /\ UNCHANGED <<ghost, upper>>

ExtAttach ==
  \E pass \in {PASS, HOLD} :
    LET r == mbedtls_writer_attach(ext, pass)
    IN /\ CallsLeft
       /\ ext' = r.ext
       /\ xlast' = XCall("attach", r.ret)
       /\ UNCHANGED <<wr, buf, queue>>
       /\ UNCHANGED <<ghost, upper>>

ExtDetach ==
  LET r == mbedtls_writer_detach(ext)
  IN /\ CallsLeft
     /\ ext' = r.ext
     /\ xlast' = XCall("detach", r.ret)
     /\ UNCHANGED <<wr, buf, queue>>
     /\ UNCHANGED <<ghost, upper>>

ExtGet ==
  \E desired \in 0..MaxDesired, has_buflen \in BOOLEAN :
    LET r == mbedtls_writer_get_ext(ext, wr, desired, has_buflen)
    IN /\ CallsLeft
       /\ ext' = r.ext
       /\ wr' = r.wr
       /\ xlast' = [XCall("get_ext", r.ret) EXCEPT !.desired = desired,
                                                 !.len = r.slice.len]
       /\ UNCHANGED <<buf, queue>>
       /\ UNCHANGED <<ghost, upper>>

ExtCommit ==
  \E omit \in 0..MaxDesired :
    LET r == mbedtls_writer_commit_partial_ext(ext, wr, queue, buf, omit)
    IN /\ CallsLeft
       /\ ext' = r.ext
       /\ wr' = r.wr
       /\ buf' = r.buf
       /\ xlast' = [XCall("commit_ext", r.ret) EXCEPT !.omit = omit]
       /\ UNCHANGED queue
       /\ UNCHANGED <<ghost, upper>>

ExtGroupOpen ==
  \E group_size \in 0..MaxSize :
    LET r == mbedtls_writer_group_open(ext, group_size)
    IN /\ CallsLeft
       /\ ext' = r.ext
       /\ xlast' = XCall("group_open", r.ret)
       /\ UNCHANGED <<wr, buf, queue>>
       /\ UNCHANGED <<ghost, upper>>

ExtGroupClose ==
  LET r == mbedtls_writer_group_close(ext)
  IN /\ CallsLeft
     /\ ext' = r.ext
     /\ xlast' = XCall("group_close", r.ret)
     /\ UNCHANGED <<wr, buf, queue>>
     /\ UNCHANGED <<ghost, upper>>

ExtCheckDone ==
  /\ CallsLeft
  /\ xlast' = XCall("check_done", mbedtls_writer_check_done(ext))
  /\ UNCHANGED <<wr, buf, queue, ext>>
  /\ UNCHANGED <<ghost, upper>>

ExtFree ==
  /\ CallsLeft
  /\ ext' = mbedtls_writer_free_ext
  /\ xlast' = XCall("free_ext", OK)
  /\ UNCHANGED <<wr, buf, queue>>
  /\ UNCHANGED <<ghost, upper>>

NextExt ==
  \/ ExtFeed \/ ExtReclaim \/ ExtAttach \/ ExtDetach \/ ExtGet \/ ExtCommit
  \/ ExtGroupOpen \/ ExtGroupClose \/ ExtCheckDone \/ ExtFree

SpecExt == InitExt /\ [][NextExt]_vars

\* End of the current group.
CurEnd(e) == e.grp_end[e.cur_grp + 1]

\* C12: the groups of an extended writer form a properly nested stack:
\* cur_grp never exceeds MBEDTLS_WRITER_MAX_GROUPS - 1, and every open group
\* ends no later than the group that contains it.
C12_GroupsNested ==
  /\ ext.cur_grp <= MBEDTLS_WRITER_MAX_GROUPS - 1
  /\ \A i \in 0..(ext.cur_grp - 1) : ext.grp_end[i + 2] <= ext.grp_end[i + 1]

C12_Witness ==
  /\ xlast.op = "group_open" /\ xlast.rc = TOO_MANY_GROUPS
  /\ ext.cur_grp = MBEDTLS_WRITER_MAX_GROUPS - 1
  /\ ext.grp_end[5] < ext.grp_end[1]

\* C13: in every state ofs_commit <= ofs_fetch <= grp_end[cur_grp]; a get_ext
\* succeeds only if ofs_fetch + desired <= grp_end[cur_grp]; a request beyond
\* the group fails, with BOUNDS_VIOLATION whenever a writer is attached and
\* not blocked, and leaves the underlying writer untouched.
C13_Cursors ==
  /\ [](ext.ofs_commit <= ext.ofs_fetch /\ ext.ofs_fetch <= CurEnd(ext))
  /\ [][ xlast'.op = "get_ext" =>
           /\ xlast'.rc = OK => ext.ofs_fetch + xlast'.desired <= CurEnd(ext)
           /\ ext.ofs_fetch + xlast'.desired > CurEnd(ext) =>
                /\ xlast'.rc # OK
                /\ (ext.wr # NULL /\ ext.passthrough # BLOCK)
                      => xlast'.rc = BOUNDS_VIOLATION
                /\ wr' = wr /\ buf' = buf /\ queue' = queue /\ ext' = ext ]_vars

C13_Witness ==
  /\ xlast.op = "get_ext" /\ xlast.rc = BOUNDS_VIOLATION
  /\ ext.wr # NULL /\ wr.state = CONSUMING
  /\ ext.ofs_fetch > ext.ofs_commit
  /\ wr.end < wr.out_len

\* C14: an extended writer attached in HOLD mode never forwards a commit to
\* the underlying writer; every full commit succeeds and keeps the mode; a
\* successful partial commit with omit > 0 switches to BLOCK; in BLOCK every
\* get_ext and commit_ext fails and changes nothing, and BLOCK persists for
\* as long as the writer stays attached.
C14_HoldThenBlock ==
  [][ /\ (ext.wr # NULL /\ ext.passthrough = HOLD /\ xlast'.op = "commit_ext")
         => /\ wr' = wr /\ buf' = buf /\ queue' = queue
            /\ xlast'.omit = 0 =>
                 xlast'.rc = OK /\ ext'.passthrough = HOLD
            /\ (xlast'.omit > 0 /\ xlast'.omit <= ext.ofs_fetch - ext.ofs_commit)
                 => xlast'.rc = OK /\ ext'.passthrough = BLOCK
            /\ (xlast'.omit > 0 /\ xlast'.rc = OK) => ext'.passthrough = BLOCK
      /\ (ext.wr # NULL /\ ext.passthrough = BLOCK)
         => /\ xlast'.op \in {"get_ext", "commit_ext"} =>
                 /\ xlast'.rc = OPERATION_UNEXPECTED
                 /\ ext' = ext /\ wr' = wr /\ buf' = buf /\ queue' = queue
            /\ ext'.wr # NULL => ext'.passthrough = BLOCK ]_vars

C14_Witness ==
  /\ xlast.op = "get_ext" /\ xlast.rc = OPERATION_UNEXPECTED
  /\ ext.wr # NULL /\ ext.passthrough = BLOCK
  /\ ext.ofs_commit > 0 /\ ext.ofs_fetch > ext.ofs_commit
  /\ wr.state = CONSUMING /\ wr.committed = 0

\* C15: a group_close called while no group is open (cur_grp = 0) fails with
\* NO_GROUP.
C15_CloseWithoutGroup ==
  [][ (xlast'.op = "group_close" /\ ext.cur_grp = 0)
         => xlast'.rc = NO_GROUP ]_vars

\* C16: a group_close succeeds only when the current group has been fully
\* fetched and fully committed.
C16_CloseNeedsCommit ==
  [][ (xlast'.op = "group_close" /\ xlast'.rc = OK)
         => /\ ext.ofs_fetch = CurEnd(ext)
            /\ ext.ofs_commit = CurEnd(ext) ]_vars

\* ================================================================ Layer 3
\* The operations below work on s = [l3, l2, wr, buf, ext], the Layer 3
\* context with its extended writer, the raw writer Layer 2 lends out and
\* the record buffer behind it, and return [ret, s, calls].  The arguments
\* named f hold what Layer 2 answers during the call.
Ret(rc, s, calls) == [ret |-> rc, s |-> s, calls |-> calls]

\* Layer 2 ends the current outgoing record, unless its writer is lent.
mps_l2_write_flush(s, rc) ==
  IF rc # OK THEN s
  ELSE IF s.wr.state = CONSUMING /\ ~s.l2.out_open
  THEN [s EXCEPT !.wr = mbedtls_writer_reclaim(s.wr, 1).wr]
  ELSE s

\* Layer 2 lends the writer of the current outgoing record, starting a new
\* record of rec_len bytes if none is open.
mps_l2_write_start(s, rc, rec_len) ==
  IF rc # OK THEN s
  ELSE LET r == mbedtls_writer_feed(s.wr, <<>>, Zeros(rec_len))
       IN IF s.wr.state = PROVIDING
          THEN [s EXCEPT !.wr = r.wr, !.buf = r.buf, !.l2.out_open = TRUE]
          ELSE [s EXCEPT !.l2.out_open = TRUE]

mps_l2_write_done(s, rc) ==
  IF rc # OK THEN s ELSE [s EXCEPT !.l2.out_open = FALSE]

mps_l2_read_start(s, rc) ==
  IF rc # OK THEN s ELSE [s EXCEPT !.l2.in_open = TRUE]

mps_l2_read_done(s, rc) ==
  IF rc # OK THEN s ELSE [s EXCEPT !.l2.in_open = FALSE]

l3_check_clear_without_flush(s, f) ==
  Ret(OK, [s EXCEPT !.l3.out.clearing = 0], <<>>)

l3_check_clear(s, f) ==
  IF s.l3.out.clearing = 0
  THEN Ret(OK, s, <<>>)
  ELSE LET t == mps_l2_write_flush(s, f.flush)
           c == << <<"write_flush", f.flush>> >>
       IN IF f.flush # OK
          THEN Ret(f.flush, t, c)
          ELSE Ret(OK, [t EXCEPT !.l3.out.clearing = 0], c)

prepare_write_interleaving_allowed(s, port) == FALSE

prepare_write_interleaving(s, port) ==
  s.l3.out.hs.state = HS_PAUSED /\ port # MSG_HS

l3_prepare_write(s, port, epoch, f) ==
  LET c == l3_check_clear(s, f)
      t == mps_l2_write_start(c.s, f.start, f.rec_len)
      calls == c.calls \o << <<"write_start", f.start>> >>
  IN IF MBEDTLS_MPS_STATE_VALIDATE_RAW(s.l3.out.state = MSG_NONE) # OK
     THEN Ret(OPERATION_UNEXPECTED, s, <<>>)
     ELSE IF prepare_write_interleaving(s, port)
     THEN Ret(NO_INTERLEAVING, s, <<>>)
     ELSE IF c.ret # OK
     THEN c
     ELSE IF f.start # OK
     THEN Ret(f.start, t, calls)
     ELSE Ret(OK, [t EXCEPT !.l3.out.raw_out = "wr",
                            !.l3.out.state = port], calls)

\* Big-endian encodings: the bytes written for a value, and the value read
\* from bytes.
MPS_WRITE_UINT8_BE(src) == << src % 256 >>

MPS_WRITE_UINT16_BE(src) == << (src \div 256) % 256, src % 256 >>

MPS_WRITE_UINT24_BE(src) ==
  << (src \div 65536) % 256, (src \div 256) % 256, src % 256 >>

MPS_READ_UINT8_BE(src) == src[1]

MPS_READ_UINT16_BE(src) == src[1] * 256 + src[2]

MPS_READ_UINT24_BE(src) == src[1] * 65536 + src[2] * 256 + src[3]

\* b with the bytes of src written from offset ofs on.
WriteAt(b, ofs, src) ==
  [i \in DOMAIN b |-> IF i > ofs /\ i <= ofs + Len(src)
                      THEN src[i - ofs] ELSE b[i]]

\* The header area with the fields of hs written at their offsets.
l3_write_hs_header_tls_type_last(hs, area) ==
  LET t == WriteAt(area, 3, MPS_WRITE_UINT8_BE(hs.type))
  IN WriteAt(t, 0, MPS_WRITE_UINT24_BE(hs.len))

l3_write_hs_header_tls(hs, area) ==
  LET tls_hs_type_offset == 0
      tls_hs_length_offset == 1
      t == WriteAt(area, tls_hs_type_offset, MPS_WRITE_UINT8_BE(hs.type))
  IN WriteAt(t, tls_hs_length_offset, MPS_WRITE_UINT24_BE(hs.len))

l3_write_hs_header_dtls(hs, area) ==
  LET dtls_hs_type_offset == 0
      dtls_hs_len_offset == 1
      dtls_hs_seq_offset == 4
      dtls_hs_frag_off_offset == 7
      dtls_hs_frag_len_offset == 10
      t == WriteAt(area, dtls_hs_type_offset, MPS_WRITE_UINT8_BE(hs.type))
      l == WriteAt(t, dtls_hs_len_offset, MPS_WRITE_UINT24_BE(hs.len))
      q == WriteAt(l, dtls_hs_seq_offset, MPS_WRITE_UINT16_BE(hs.seq_nr))
      o == WriteAt(q, dtls_hs_frag_off_offset,
                   MPS_WRITE_UINT24_BE(hs.frag_offset))
  IN WriteAt(o, dtls_hs_frag_len_offset, MPS_WRITE_UINT24_BE(hs.frag_len))

l3_check_write_hs_hdr(s) ==
  LET hs == s.l3.out.hs
      known == IF s.l3.conf.mode = TLS
               THEN hs.len # MBEDTLS_MPS_SIZE_UNKNOWN
               ELSE /\ hs.len # MBEDTLS_MPS_SIZE_UNKNOWN
                    /\ hs.frag_len # MBEDTLS_MPS_SIZE_UNKNOWN
      hdr_size == IF s.l3.conf.mode = TLS
                  THEN MPS_TLS_HS_HDR_SIZE ELSE MPS_DTLS_HS_HDR_SIZE
      reserved == SubSeq(s.buf, hs.hdr_ofs + 1, hs.hdr_ofs + hs.hdr_len)
      hdr == IF s.l3.conf.mode = TLS
             THEN l3_write_hs_header_tls(hs, reserved)
             ELSE l3_write_hs_header_dtls(hs, reserved)
  IN IF hs.hdr # NULL /\ known
     THEN IF hs.hdr_len # hdr_size
          THEN Ret(INTERNAL_ERROR, s, <<>>)
          ELSE Ret(OK, [s EXCEPT !.buf = WriteAt(@, hs.hdr_ofs, hdr),
                                 !.l3.out.hs.hdr = NULL,
                                 !.l3.out.hs.hdr_len = 0], <<>>)
     ELSE Ret(OK, s, <<>>)

write_out_of_data_forgets_flush(s, calls, f) ==
  LET t == [s EXCEPT !.l3.out.state = MSG_NONE]
      u == mps_l2_write_done(t, f.done)
      c == calls \o << <<"writer_get", OUT_OF_DATA>>,
                       <<"write_done", f.done>> >>
  IN IF f.done # OK THEN Ret(f.done, u, c) ELSE Ret(RETRY, u, c)

\* The write is given up for lack of space in the record.
write_out_of_data(s, calls, f) ==
  LET t == [s EXCEPT !.l3.out.clearing = 1, !.l3.out.state = MSG_NONE]
      u == mps_l2_write_done(t, f.done)
      c == calls \o << <<"writer_get", OUT_OF_DATA>>,
                       <<"write_done", f.done>> >>
  IN IF f.done # OK THEN Ret(f.done, u, c) ELSE Ret(RETRY, u, c)

write_handshake_mismatch_none(s, out) == FALSE

write_handshake_mismatch(s, out) ==
  /\ s.l3.out.hs.state = HS_PAUSED
  /\ \/ s.l3.out.hs.epoch # out.epoch
     \/ s.l3.out.hs.type # out.type
     \/ s.l3.out.hs.len # out.len

\* The DTLS checks on the lengths of a new handshake fragment.
write_handshake_dtls_lengths_ok(out) ==
  LET end_of_fragment == (out.frag_offset + out.frag_len) % SIZE_MOD
  IN /\ ~(/\ out.len = MBEDTLS_MPS_SIZE_UNKNOWN
          /\ \/ out.frag_offset # 0
             \/ out.frag_len # MBEDTLS_MPS_SIZE_UNKNOWN)
     /\ ~(/\ out.len # MBEDTLS_MPS_SIZE_UNKNOWN
          /\ out.frag_len # MBEDTLS_MPS_SIZE_UNKNOWN
          /\ \/ end_of_fragment < out.frag_offset
             \/ end_of_fragment > out.len)

\* The part of mps_l3_write_handshake that starts a new message.
write_handshake_new(s, out, calls, f) ==
  LET mode == s.l3.conf.mode
      hdr_len == IF mode = TLS THEN MPS_TLS_HS_HDR_SIZE
                 ELSE MPS_DTLS_HS_HDR_SIZE
      a == [s EXCEPT !.l3.out.hs.epoch = out.epoch,
                     !.l3.out.hs.len = out.len,
                     !.l3.out.hs.type = out.type,
                     !.l3.out.hs.seq_nr =
                        IF mode = DTLS THEN out.seq_nr ELSE @,
                     !.l3.out.hs.frag_len =
                        IF mode = DTLS THEN out.frag_len ELSE @,
                     !.l3.out.hs.frag_offset =
                        IF mode = DTLS THEN out.frag_offset ELSE @]
      b == [a EXCEPT !.l3.out.hs.hdr_len = hdr_len]
      g == mbedtls_writer_get(b.wr, hdr_len, FALSE)
      d == [b EXCEPT !.wr = g.wr, !.l3.out.hs.hdr = "hdr",
                     !.l3.out.hs.hdr_ofs = g.slice.ofs]
      h == l3_check_write_hs_hdr(d)
      e == [h.s EXCEPT !.ext = mbedtls_writer_init_ext(
                                 IF mode = TLS THEN out.len ELSE out.frag_len)]
  IN IF mode = DTLS /\ ~write_handshake_dtls_lengths_ok(out)
     THEN Ret(INTERNAL_ERROR, a, calls)
     ELSE IF g.ret = OUT_OF_DATA
     THEN write_out_of_data([b EXCEPT !.wr = g.wr], calls, f)
     ELSE IF g.ret # OK
     THEN Ret(g.ret, [b EXCEPT !.wr = g.wr], calls)
     ELSE IF h.ret # OK
     THEN Ret(h.ret, h.s, calls)
     ELSE Ret(OK, e, calls)

mps_l3_write_handshake(s, out, f) ==
  LET p == l3_prepare_write(s, MSG_HS, out.epoch, f)
      n == IF p.s.l3.out.hs.state = HS_NONE
           THEN write_handshake_new(p.s, out, p.calls, f)
           ELSE Ret(OK, p.s, p.calls)
      len == IF s.l3.conf.mode = TLS THEN out.len ELSE out.frag_len
      at == mbedtls_writer_attach(n.s.ext,
              IF len # MBEDTLS_MPS_SIZE_UNKNOWN THEN PASS ELSE HOLD)
  IN IF write_handshake_mismatch(s, out)
     THEN Ret(INVALID_ARGS, s, <<>>)
     ELSE IF p.ret # OK
     THEN p
     ELSE IF n.ret # OK
     THEN n
     ELSE IF at.ret # OK
     THEN Ret(at.ret, n.s, n.calls)
     ELSE Ret(OK, [n.s EXCEPT !.ext = at.ext,
                              !.l3.out.hs.state = HS_ACTIVE], n.calls)

mps_l3_write_app(s, epoch, f) == l3_prepare_write(s, MSG_APP, epoch, f)

\* mps_l3_write_alert and mps_l3_write_ccs after l3_prepare_write: reserve
\* the size bytes of the message.
write_reserve(p, size, f) ==
  LET g == mbedtls_writer_get(p.s.wr, size, FALSE)
      t == [p.s EXCEPT !.wr = g.wr]
  IN IF p.ret # OK
     THEN p
     ELSE IF g.ret = OUT_OF_DATA
     THEN write_out_of_data(t, p.calls, f)
     ELSE IF g.ret # OK
     THEN Ret(g.ret, t, p.calls)
     ELSE Ret(OK, t, p.calls)

mps_l3_write_alert(s, epoch, f) ==
  write_reserve(l3_prepare_write(s, MSG_ALERT, epoch, f),
                MPS_TLS_ALERT_SIZE, f)

mps_l3_write_ccs(s, epoch, f) ==
  write_reserve(l3_prepare_write(s, MSG_CCS, epoch, f), MPS_TLS_CCS_SIZE, f)

MBEDTLS_MPS_ASSERT_RAW(cond) == IF cond THEN OK ELSE INTERNAL_ERROR

write_release_keeps_state(s, calls, f, hs_state) ==
  LET t == [s EXCEPT !.l3.out.raw_out = NULL]
      u == mps_l2_write_done(t, f.done)
      c == calls \o << <<"write_done", f.done>> >>
  IN IF f.done # OK
     THEN Ret(f.done, u, c)
     ELSE Ret(OK, [u EXCEPT !.l3.out.hs.state = hs_state], c)

\* Hand the raw writer back to Layer 2 and leave the message state.
write_release(s, calls, f, hs_state) ==
  LET t == [s EXCEPT !.l3.out.raw_out = NULL]
      u == mps_l2_write_done(t, f.done)
      c == calls \o << <<"write_done", f.done>> >>
  IN IF f.done # OK
     THEN Ret(f.done, u, c)
     ELSE Ret(OK, [u EXCEPT !.l3.out.hs.state = hs_state,
                            !.l3.out.state = MSG_NONE], c)

mps_l3_pause_handshake(s, f) ==
  LET d == mbedtls_writer_detach(s.ext)
      t == [s EXCEPT !.ext = d.ext]
      c == mbedtls_writer_commit_partial(t.wr, <<>>, t.buf, d.uncommitted)
      u == [t EXCEPT !.wr = c.wr, !.buf = c.buf]
  IN IF MBEDTLS_MPS_STATE_VALIDATE_RAW(
          /\ s.l3.out.state = MSG_HS
          /\ s.l3.out.hs.state = HS_ACTIVE
          /\ s.l3.out.hs.len # MBEDTLS_MPS_SIZE_UNKNOWN) # OK
     THEN Ret(OPERATION_UNEXPECTED, s, <<>>)
     ELSE IF d.ret # OK
     THEN Ret(d.ret, s, <<>>)
     ELSE IF c.ret # OK
     THEN Ret(c.ret, u, <<>>)
     ELSE write_release(u, <<>>, f, HS_PAUSED)

mps_l3_write_abort_handshake_unchecked(s, f) ==
  LET d == mbedtls_writer_detach(s.ext)
      t == [s EXCEPT !.ext = mbedtls_writer_free_ext]
  IN IF MBEDTLS_MPS_STATE_VALIDATE_RAW(
          /\ s.l3.out.state = MSG_HS
          /\ s.l3.out.hs.state = HS_ACTIVE) # OK
     THEN Ret(OPERATION_UNEXPECTED, s, <<>>)
     ELSE IF d.ret # OK
     THEN Ret(d.ret, s, <<>>)
     ELSE write_release(t, <<>>, f, HS_NONE)

mps_l3_write_abort_handshake(s, f) ==
  LET d == mbedtls_writer_detach(s.ext)
      t == [s EXCEPT !.ext = mbedtls_writer_free_ext]
  IN IF MBEDTLS_MPS_STATE_VALIDATE_RAW(
          /\ s.l3.out.state = MSG_HS
          /\ s.l3.out.hs.state = HS_ACTIVE) # OK
     THEN Ret(OPERATION_UNEXPECTED, s, <<>>)
     ELSE IF d.ret # OK
     THEN Ret(d.ret, s, <<>>)
     ELSE IF MBEDTLS_MPS_ASSERT_RAW(d.committed = 0) # OK
     THEN Ret(INTERNAL_ERROR, t, <<>>)
     ELSE write_release(t, <<>>, f, HS_NONE)

\* The handshake case of mps_l3_dispatch, up to the release of the writer.
dispatch_hs(s) ==
  LET d == mbedtls_writer_detach(s.ext)
      mode == s.l3.conf.mode
      unknown(x) == x = MBEDTLS_MPS_SIZE_UNKNOWN
      t == [s EXCEPT !.ext = mbedtls_writer_free_ext,
                     !.l3.out.hs.len = IF unknown(@) THEN d.committed ELSE @,
                     !.l3.out.hs.frag_len =
                        IF mode = DTLS /\ unknown(@) THEN d.committed ELSE @]
      h == l3_check_write_hs_hdr(t)
      c == mbedtls_writer_commit_partial(h.s.wr, <<>>, h.s.buf, d.uncommitted)
      u == [h.s EXCEPT !.wr = c.wr, !.buf = c.buf]
  IN IF s.l3.out.hs.state # HS_ACTIVE
     THEN Ret(INTERNAL_ERROR, s, <<>>)
     ELSE IF mbedtls_writer_check_done(s.ext) # OK
     THEN Ret(UNFINISHED_HS_MSG, s, <<>>)
     ELSE IF d.ret # OK
     THEN Ret(d.ret, s, <<>>)
     ELSE IF h.ret # OK
     THEN Ret(h.ret, h.s, <<>>)
     ELSE IF c.ret # OK
     THEN Ret(c.ret, u, <<>>)
     ELSE Ret(OK, [u EXCEPT !.l3.out.hs.state = HS_NONE], <<>>)

\* The alert and CCS cases of mps_l3_dispatch.
dispatch_commit(s) ==
  LET c == mbedtls_writer_commit(s.wr, <<>>, s.buf)
  IN Ret(c.ret, [s EXCEPT !.wr = c.wr, !.buf = c.buf], <<>>)

dispatch_case(s) ==
  IF s.l3.out.state = MSG_HS THEN dispatch_hs(s)
  ELSE IF s.l3.out.state \in {MSG_ALERT, MSG_CCS} THEN dispatch_commit(s)
  ELSE IF s.l3.out.state = MSG_APP THEN Ret(OK, s, <<>>)
  ELSE IF MBEDTLS_MPS_STATE_VALIDATE_RAW(s.l3.out.state # MSG_NONE) # OK
  THEN Ret(OPERATION_UNEXPECTED, s, <<>>)
  ELSE Ret(INTERNAL_ERROR, s, <<>>)

mps_l3_dispatch(s, f) ==
  LET k == dispatch_case(s)
  IN IF k.ret # OK
     THEN k
     ELSE write_release(k.s, <<>>, f, k.s.l3.out.hs.state)

mps_l3_flush(s, f) ==
  l3_check_clear([s EXCEPT !.l3.out.clearing = 1], f)

\* ----- reading.  A record is [type, epoch, content], its content being
\* "ok", "short" (fewer bytes than the message needs) or "bad" (bytes that
\* fail the validity check of the message).
l3_parse_alert(rec) ==
  IF rec.content = "short" THEN READER_OUT_OF_DATA
  ELSE IF rec.content = "bad" THEN INVALID_CONTENT ELSE OK

l3_parse_ccs(rec) ==
  IF rec.content = "short" THEN READER_OUT_OF_DATA
  ELSE IF rec.content = "bad" THEN INVALID_CONTENT ELSE OK

l3_parse_hs_header(mode, rec) ==
  IF rec.content = "short" THEN READER_OUT_OF_DATA
  ELSE IF mode = DTLS /\ rec.content = "bad" THEN INVALID_CONTENT ELSE OK

read_out_of_data_retries_dtls(s, calls, f) ==
  LET u == mps_l2_read_done(s, f.done)
      g == calls \o << <<"reader_get", READER_OUT_OF_DATA>> >>
      c == g \o << <<"read_done", f.done>> >>
  IN IF f.done # OK THEN Ret(f.done, u, c) ELSE Ret(RETRY, u, c)

\* An incomplete alert or handshake header.
read_out_of_data(s, calls, f) ==
  LET u == mps_l2_read_done(s, f.done)
      g == calls \o << <<"reader_get", READER_OUT_OF_DATA>> >>
      c == g \o << <<"read_done", f.done>> >>
  IN IF s.l3.conf.mode = DTLS
     THEN Ret(INVALID_CONTENT, s, g)
     ELSE IF f.done # OK THEN Ret(f.done, u, c) ELSE Ret(RETRY, u, c)

\* The bytes of b from offset ofs on.
From(b, ofs) == SubSeq(b, ofs + 1, Len(b))

\* The parsers on the bytes rd the reader holds; in receives the fields, of
\* the width of the stored sizes.
l3_parse_hs_header_tls(rd, in) ==
  LET tmp == SubSeq(rd, 1, MPS_TLS_HS_HDR_SIZE)
      tls_hs_type_offset == 0
      tls_hs_length_offset == 1
      parsed == [in EXCEPT
        !.type = MPS_READ_UINT8_BE(From(tmp, tls_hs_type_offset)),
        !.len = MPS_READ_UINT24_BE(From(tmp, tls_hs_length_offset))
                  % SIZE_MOD]
  IN IF Len(rd) < MPS_TLS_HS_HDR_SIZE
     THEN [ret |-> READER_OUT_OF_DATA, in |-> in]
     ELSE [ret |-> OK, in |-> parsed]

l3_parse_hs_header_dtls_swapped(rd, in) ==
  LET tmp == SubSeq(rd, 1, MPS_DTLS_HS_HDR_SIZE)
      dtls_hs_type_offset == 0
      dtls_hs_len_offset == 1
      dtls_hs_seq_offset == 4
      dtls_hs_frag_off_offset == 10
      dtls_hs_frag_len_offset == 7
      parsed == [in EXCEPT
        !.type = MPS_READ_UINT8_BE(From(tmp, dtls_hs_type_offset)),
        !.len = MPS_READ_UINT24_BE(From(tmp, dtls_hs_len_offset)) % SIZE_MOD,
        !.seq_nr = MPS_READ_UINT16_BE(From(tmp, dtls_hs_seq_offset)),
        !.frag_offset =
           MPS_READ_UINT24_BE(From(tmp, dtls_hs_frag_off_offset)) % SIZE_MOD,
        !.frag_len =
           MPS_READ_UINT24_BE(From(tmp, dtls_hs_frag_len_offset)) % SIZE_MOD]
  IN IF Len(rd) < MPS_DTLS_HS_HDR_SIZE
     THEN [ret |-> READER_OUT_OF_DATA, in |-> in]
     ELSE IF parsed.frag_offset + parsed.frag_len > parsed.len
     THEN [ret |-> INVALID_CONTENT, in |-> parsed]
     ELSE [ret |-> OK, in |-> parsed]

l3_parse_hs_header_dtls(rd, in) ==
  LET tmp == SubSeq(rd, 1, MPS_DTLS_HS_HDR_SIZE)
      dtls_hs_type_offset == 0
      dtls_hs_len_offset == 1
      dtls_hs_seq_offset == 4
      dtls_hs_frag_off_offset == 7
      dtls_hs_frag_len_offset == 10
      parsed == [in EXCEPT
        !.type = MPS_READ_UINT8_BE(From(tmp, dtls_hs_type_offset)),
        !.len = MPS_READ_UINT24_BE(From(tmp, dtls_hs_len_offset)) % SIZE_MOD,
        !.seq_nr = MPS_READ_UINT16_BE(From(tmp, dtls_hs_seq_offset)),
        !.frag_offset =
           MPS_READ_UINT24_BE(From(tmp, dtls_hs_frag_off_offset)) % SIZE_MOD,
        !.frag_len =
           MPS_READ_UINT24_BE(From(tmp, dtls_hs_frag_len_offset)) % SIZE_MOD]
  IN IF Len(rd) < MPS_DTLS_HS_HDR_SIZE
     THEN [ret |-> READER_OUT_OF_DATA, in |-> in]
     ELSE IF parsed.frag_offset + parsed.frag_len > parsed.len
     THEN [ret |-> INVALID_CONTENT, in |-> parsed]
     ELSE [ret |-> OK, in |-> parsed]

read_hs(s, rec, calls, f) ==
  LET res == l3_parse_hs_header(s.l3.conf.mode, rec)
      act == [s EXCEPT !.l3.inp.hs.epoch = rec.epoch,
                       !.l3.inp.hs.state = HS_ACTIVE]
  IN IF s.l3.inp.hs.state = HS_NONE
     THEN IF res = READER_OUT_OF_DATA THEN read_out_of_data(s, calls, f)
          ELSE IF res # OK THEN Ret(res, s, calls)
          ELSE Ret(OK, act, calls)
     ELSE IF s.l3.inp.hs.state = HS_PAUSED
     THEN IF s.l3.inp.hs.epoch # rec.epoch
          THEN Ret(INTERNAL_ERROR, s, calls)
          ELSE Ret(OK, act, calls)
     ELSE Ret(INTERNAL_ERROR, s, calls)

read_case(s, rec, calls, f) ==
  IF rec.type = MSG_APP THEN Ret(OK, s, calls)
  ELSE IF rec.type = MSG_ALERT
  THEN IF l3_parse_alert(rec) = READER_OUT_OF_DATA
       THEN read_out_of_data(s, calls, f)
       ELSE Ret(l3_parse_alert(rec), s, calls)
  ELSE IF rec.type = MSG_CCS THEN Ret(l3_parse_ccs(rec), s, calls)
  ELSE IF rec.type = MSG_ACK THEN Ret(INVALID_CONTENT, s, calls)
  ELSE IF rec.type = MSG_HS THEN read_hs(s, rec, calls, f)
  ELSE Ret(INTERNAL_ERROR, s, calls)

\* Returns the type of the message on success.
mps_l3_read(s, rec, f) ==
  LET t == mps_l2_read_start(s, f.start)
      calls == << <<"read_start", f.start>> >>
      k == read_case(t, rec, calls, f)
  IN IF MBEDTLS_MPS_STATE_VALIDATE_RAW(s.l3.inp.state = MSG_NONE) # OK
     THEN Ret(OPERATION_UNEXPECTED, s, <<>>)
     ELSE IF f.start # OK
     THEN Ret(f.start, t, calls)
     ELSE IF k.ret # OK
     THEN k
     ELSE Ret(rec.type, [k.s EXCEPT !.l3.inp.raw_in = "rd",
                                    !.l3.inp.state = rec.type], k.calls)

\* done tells whether the consumer has read the whole handshake message.
mps_l3_read_consume(s, done, f) ==
  LET t == [s EXCEPT !.l3.inp.raw_in = NULL]
      u == mps_l2_read_done(t, f.done)
      c == << <<"read_done", f.done>> >>
  IN IF s.l3.inp.state = MSG_HS /\ ~done
     THEN Ret(UNFINISHED_HS_MSG, s, <<>>)
     ELSE IF MBEDTLS_MPS_STATE_VALIDATE_RAW(s.l3.inp.state # MSG_NONE) # OK
     THEN Ret(OPERATION_UNEXPECTED, s, <<>>)
     ELSE IF f.done # OK
     THEN Ret(f.done, u, c)
     ELSE Ret(OK, [u EXCEPT !.l3.inp.hs.state =
                              IF s.l3.inp.state = MSG_HS THEN HS_NONE ELSE @,
                            !.l3.inp.state = MSG_NONE], c)

mps_l3_read_pause_handshake(s, f) ==
  LET t == [s EXCEPT !.l3.inp.raw_in = NULL]
      u == mps_l2_read_done(t, f.done)
      c == << <<"read_done", f.done>> >>
  IN IF MBEDTLS_MPS_STATE_VALIDATE_RAW(
          /\ s.l3.inp.state = MSG_HS
          /\ s.l3.inp.hs.state = HS_ACTIVE) # OK
     THEN Ret(OPERATION_UNEXPECTED, s, <<>>)
     ELSE IF f.done # OK
     THEN Ret(f.done, u, c)
     ELSE Ret(OK, [u EXCEPT !.l3.inp.state = MSG_NONE,
                            !.l3.inp.hs.state = HS_PAUSED], c)

\* ----- the Layer 3 system: a user of Layer 3, the consumers of the writers
\* it hands out, and Layer 2 below.
RecLens == {MPS_TLS_CCS_SIZE + MaxBody, MPS_TLS_HS_HDR_SIZE + MaxBody,
            MPS_DTLS_HS_HDR_SIZE + MaxBody}
L2Results == {OK, L2_ERROR}
Lens == 0..MaxBody \cup {MBEDTLS_MPS_SIZE_UNKNOWN}
Epochs == {0, 1}
HsTypes == {1, 2}
\* What Layer 2 answers during one call.
L2Answers == [flush : L2Results, start : L2Results, done : L2Results,
              rec_len : RecLens]
\* Answers that differ only in what the call cannot come to ask are left
\* out: a call that only ends a borrow, and a call that starts a write.
L2Done == {f \in L2Answers :
             /\ f.flush = OK /\ f.start = OK
             /\ f.rec_len = MPS_TLS_HS_HDR_SIZE + MaxBody}
L2Write ==
  {f \in L2Answers :
     /\ l3.out.state # MSG_NONE => f \in L2Done /\ f.done = OK
     /\ l3.out.clearing = 0 => f.flush = OK
     /\ (l3.out.clearing = 0 /\ wr.state = CONSUMING)
           => f.rec_len = MPS_TLS_HS_HDR_SIZE + MaxBody}
\* Handshake parameters; the fragment fields are used under DTLS only,
\* where the fragment has the length of the message and starts at its
\* beginning or past it.
HsOut(mode) ==
  {o \in [epoch : Epochs, type : HsTypes, len : Lens, seq_nr : {0},
          frag_len : Lens, frag_offset : {0, MaxBody}] :
     /\ mode = TLS => (o.frag_len = 0 /\ o.frag_offset = 0)
     /\ mode = DTLS => o.frag_len = o.len}
\* Handshake parameters where a DTLS fragment may also have a length that
\* is not known yet.
HsFrag(mode) ==
  {o \in [epoch : Epochs, type : HsTypes, len : Lens, seq_nr : {0},
          frag_len : Lens, frag_offset : {0, MaxBody}] :
     /\ mode = TLS => (o.frag_len = 0 /\ o.frag_offset = 0)
     /\ mode = DTLS => o.frag_len \in {o.len, MBEDTLS_MPS_SIZE_UNKNOWN}}
Records == [type : {MSG_APP, MSG_ALERT, MSG_CCS, MSG_ACK, MSG_HS},
            epoch : Epochs, content : {"ok", "short", "bad"}]

S == [l3 |-> l3, l2 |-> l2, wr |-> wr, buf |-> buf, ext |-> ext]

\* len is the length passed to the call, where it takes one.
ApplyLen(op, r, differs, len) ==
  /\ l3' = r.s.l3
  /\ l2' = r.s.l2
  /\ wr' = r.s.wr
  /\ buf' = r.s.buf
  /\ ext' = r.s.ext
  /\ xlast' = [XCall(op, r.ret) EXCEPT !.l2 = r.calls, !.differs = differs,
                                      !.len = len]
  /\ UNCHANGED <<queue, ghost>>

Apply(op, r, differs) == ApplyLen(op, r, differs, 0)

InitL3 ==
  /\ wr = mbedtls_writer_init(NULL, 0)
  /\ queue = <<>>
  /\ buf = <<>>
  /\ last = NoCall
  /\ pend = <<>>
  /\ stream = <<>>
  /\ sent = <<>>
  /\ cyc = [copied |-> 0, consumer |-> 0]
  /\ owed = <<>>
  /\ nstamp = 0
  /\ ext = mbedtls_writer_init_ext(0)
  /\ \E mode \in {TLS, DTLS} : l3 = mps_l3_init(mode)
  /\ l2 = mps_l2_init
  /\ xlast = NoXCall

WriteHandshake(outs) ==
  /\ L3CallsLeft
  /\ \E out \in outs, f \in L2Write :
       ApplyLen("write_handshake", mps_l3_write_handshake(S, out, f),
                <<out.epoch, out.type, out.len>> #
                   <<l3.out.hs.epoch, l3.out.hs.type, l3.out.hs.len>>,
                IF l3.conf.mode = TLS THEN out.len ELSE out.frag_len)

L3WriteHandshake == WriteHandshake(HsOut(l3.conf.mode))

L3WriteFragment == WriteHandshake(HsFrag(l3.conf.mode))

L3WriteApp ==
  /\ L3CallsLeft
  /\ \E epoch \in Epochs, f \in L2Write :
       /\ f.done = OK
       /\ Apply("write_app", mps_l3_write_app(S, epoch, f), FALSE)

L3WriteAlert ==
  /\ L3CallsLeft
  /\ \E epoch \in Epochs, f \in L2Write :
       Apply("write_alert", mps_l3_write_alert(S, epoch, f), FALSE)

L3WriteCcs ==
  /\ L3CallsLeft
  /\ \E epoch \in Epochs, f \in L2Write :
       Apply("write_ccs", mps_l3_write_ccs(S, epoch, f), FALSE)

L3PauseHandshake ==
  /\ L3CallsLeft
  /\ \E f \in L2Done :
       Apply("pause_handshake", mps_l3_pause_handshake(S, f), FALSE)

L3AbortHandshake ==
  /\ L3CallsLeft
  /\ \E f \in L2Done :
       Apply("write_abort_handshake", mps_l3_write_abort_handshake(S, f), FALSE)

L3Dispatch ==
  /\ L3CallsLeft
  /\ \E f \in L2Done : Apply("dispatch", mps_l3_dispatch(S, f), FALSE)

L3Flush ==
  /\ L3CallsLeft
  /\ \E f \in L2Answers :
       /\ f.start = OK /\ f.done = OK
       /\ f.rec_len = MPS_TLS_HS_HDR_SIZE + MaxBody
       /\ Apply("flush", mps_l3_flush(S, f), FALSE)

L3Read ==
  /\ L3CallsLeft
  /\ \E rec \in Records, f \in L2Answers :
       /\ f.flush = OK /\ f.rec_len = MPS_TLS_HS_HDR_SIZE + MaxBody
       /\ Apply("read", mps_l3_read(S, rec, f), FALSE)

L3ReadConsume ==
  /\ L3CallsLeft
  /\ \E done \in BOOLEAN, f \in L2Done :
       Apply("read_consume", mps_l3_read_consume(S, done, f), FALSE)

L3ReadPauseHandshake ==
  /\ L3CallsLeft
  /\ \E f \in L2Done :
       Apply("read_pause_handshake", mps_l3_read_pause_handshake(S, f), FALSE)

\* The consumer of a handshake message works on the extended writer.
HsGet ==
  /\ L3CallsLeft
  /\ l3.out.hs.state = HS_ACTIVE
  /\ \E desired \in 0..MaxDesired, has_buflen \in BOOLEAN :
       LET r == mbedtls_writer_get_ext(ext, wr, desired, has_buflen)
       IN /\ ext' = r.ext
          /\ wr' = r.wr
          /\ xlast' = [XCall("get_ext", r.ret) EXCEPT !.desired = desired,
                                                    !.len = r.slice.len]
          /\ UNCHANGED <<buf, queue, ghost, upper>>

HsCommit ==
  /\ L3CallsLeft
  /\ l3.out.hs.state = HS_ACTIVE
  /\ \E omit \in 0..MaxDesired :
       LET r == mbedtls_writer_commit_partial_ext(ext, wr, queue, buf, omit)
       IN /\ ext' = r.ext
          /\ wr' = r.wr
          /\ buf' = r.buf
          /\ xlast' = [XCall("commit_ext", r.ret) EXCEPT !.omit = omit]
          /\ UNCHANGED <<queue, ghost, upper>>

HsGroupOpen ==
  /\ L3CallsLeft
  /\ l3.out.hs.state = HS_ACTIVE
  /\ \E group_size \in 0..MaxSize :
       LET r == mbedtls_writer_group_open(ext, group_size)
       IN /\ ext' = r.ext
          /\ xlast' = XCall("group_open", r.ret)
          /\ UNCHANGED <<wr, buf, queue, ghost, upper>>

HsGroupClose ==
  /\ L3CallsLeft
  /\ l3.out.hs.state = HS_ACTIVE
  /\ LET r == mbedtls_writer_group_close(ext)
     IN /\ ext' = r.ext
        /\ xlast' = XCall("group_close", r.ret)
        /\ UNCHANGED <<wr, buf, queue, ghost, upper>>

\* The consumer of an application data message works on the raw writer.
AppGet ==
  \E desired \in 0..MaxDesired, has_buflen \in BOOLEAN :
    LET r == mbedtls_writer_get(wr, desired, has_buflen)
    IN /\ L3CallsLeft
       /\ l3.out.state = MSG_APP
       /\ wr' = r.wr
       /\ xlast' = [XCall("get", r.ret) EXCEPT !.desired = desired,
                                             !.len = r.slice.len]
       /\ UNCHANGED <<buf, queue, ext, ghost, upper>>

AppCommit ==
  \E omit \in 0..MaxDesired :
    LET r == mbedtls_writer_commit_partial(wr, queue, buf, omit)
    IN /\ L3CallsLeft
       /\ l3.out.state = MSG_APP
       /\ wr' = r.wr
       /\ buf' = r.buf
       /\ xlast' = [XCall("commit", r.ret) EXCEPT !.omit = omit]
       /\ UNCHANGED <<queue, ext, ghost, upper>>

\* The outgoing side.
NextL3 ==
  \/ L3WriteHandshake \/ L3WriteApp \/ L3WriteAlert \/ L3WriteCcs
  \/ L3PauseHandshake \/ L3AbortHandshake \/ L3Dispatch \/ L3Flush
  \/ HsGet \/ HsCommit \/ HsGroupOpen \/ HsGroupClose
  \/ AppGet \/ AppCommit

SpecL3 == InitL3 /\ [][NextL3]_vars

\* The writing of handshake messages, fragments of a length not known yet
\* included.
NextL3Hs ==
  \/ L3WriteFragment \/ L3PauseHandshake \/ L3Dispatch
  \/ HsGet \/ HsCommit

SpecL3Hs == InitL3 /\ [][NextL3Hs]_vars

\* The incoming side.
NextL3In == L3Read \/ L3ReadConsume \/ L3ReadPauseHandshake

SpecL3In == InitL3 /\ [][NextL3In]_vars

\* One TLS handshake message of known length, longer than the room a
\* record has for it, written over several records.  Layer 2 answers 0
\* to every call; sent collects the committed prefixes of the records it
\* ended.  The consumer writes BodyByte(p) as the byte p of the body.
BodyByte(p) == 255 - (p % 256)

HsCallsLeft == l3.conf.mode = TLS /\ xlast.n < MaxHsCalls

L2Ok == [flush |-> OK, start |-> OK, done |-> OK,
         rec_len |-> MPS_TLS_HS_HDR_SIZE + MaxBody]

InitRec ==
  /\ wr = mbedtls_writer_init(NULL, 0)
  /\ queue = <<>>
  /\ buf = <<>>
  /\ last = NoCall
  /\ pend = <<>>
  /\ stream = <<>>
  /\ sent = <<>>
  /\ cyc = [copied |-> 0, consumer |-> 0]
  /\ owed = <<>>
  /\ nstamp = 0
  /\ ext = mbedtls_writer_init_ext(0)
  /\ l3 = mps_l3_init(TLS)
  /\ l2 = mps_l2_init
  /\ xlast = NoXCall

\* Layer 2 ends the record when a flush reclaims the writer.
RecApply(op, r) ==
  /\ l3' = r.s.l3
  /\ l2' = r.s.l2
  /\ wr' = r.s.wr
  /\ buf' = r.s.buf
  /\ ext' = r.s.ext
  /\ xlast' = [XCall(op, r.ret) EXCEPT !.l2 = r.calls]
  /\ sent' = IF /\ \E i \in 1..Len(r.calls) : r.calls[i] = <<"write_flush", OK>>
                /\ wr.state = CONSUMING /\ ~l2.out_open
             THEN sent \o SubSeq(buf, 1, wr.committed)
             ELSE sent
  /\ UNCHANGED <<queue, last, pend, stream, cyc, owed, nstamp>>

\* A first message is started, or a call is made while it is written.
RecWriteHandshake ==
  /\ HsCallsLeft
  /\ l3.out.hs.state # HS_NONE \/ (wr.state = PROVIDING /\ sent = <<>>)
  /\ \E type \in HsTypes, len \in 1..(MaxBody + 1) :
       RecApply("write_handshake",
                mps_l3_write_handshake(S, [epoch |-> 0, type |-> type,
                                           len |-> len, seq_nr |-> 0,
                                           frag_len |-> 0, frag_offset |-> 0],
                                       L2Ok))

RecGet ==
  /\ HsCallsLeft
  /\ l3.out.hs.state = HS_ACTIVE
  /\ \E desired \in 1..MaxDesired, has_buflen \in BOOLEAN :
       LET r == mbedtls_writer_get_ext(ext, wr, desired, has_buflen)
           written == [i \in 1..r.slice.len |-> BodyByte(ext.ofs_fetch + i)]
       IN /\ ext' = r.ext
          /\ wr' = r.wr
          /\ buf' = IF r.ret = OK THEN WriteAt(buf, r.slice.ofs, written)
                    ELSE buf
          /\ xlast' = [XCall("get_ext", r.ret) EXCEPT !.desired = desired,
                                                    !.len = r.slice.len]
          /\ UNCHANGED <<queue, ghost, upper>>

RecCommit ==
  /\ HsCallsLeft
  /\ l3.out.hs.state = HS_ACTIVE
  /\ \E omit \in 0..MaxDesired :
       LET r == mbedtls_writer_commit_partial_ext(ext, wr, queue, buf, omit)
       IN /\ ext' = r.ext
          /\ wr' = r.wr
          /\ buf' = r.buf
          /\ xlast' = [XCall("commit_ext", r.ret) EXCEPT !.omit = omit]
          /\ UNCHANGED <<queue, ghost, upper>>

RecPauseHandshake ==
  HsCallsLeft /\ RecApply("pause_handshake", mps_l3_pause_handshake(S, L2Ok))

RecDispatch ==
  HsCallsLeft /\ RecApply("dispatch", mps_l3_dispatch(S, L2Ok))

RecFlush ==
  HsCallsLeft /\ RecApply("flush", mps_l3_flush(S, L2Ok))

NextRec ==
  \/ RecWriteHandshake \/ RecGet \/ RecCommit
  \/ RecPauseHandshake \/ RecDispatch \/ RecFlush

SpecRec == InitRec /\ [][NextRec]_vars

\* The handshake header on its own: the fields of a header that is reserved
\* and not yet written are drawn from samples around the byte boundaries;
\* the header is written, then parsed from the bytes written.
HdrFields(mode) ==
  {o \in [type : {0, 1, 255}, len : {0, 1, 256, 65534},
          seq_nr : {0, 258, 65535}, frag_offset : {0, 1, 257},
          frag_len : {0, 1, 255}] :
     mode = TLS => (o.seq_nr = 0 /\ o.frag_offset = 0 /\ o.frag_len = 0)}

InitHdr ==
  /\ wr = mbedtls_writer_init(NULL, 0)
  /\ queue = <<>>
  /\ last = NoCall
  /\ pend = <<>>
  /\ stream = <<>>
  /\ sent = <<>>
  /\ cyc = [copied |-> 0, consumer |-> 0]
  /\ owed = <<>>
  /\ nstamp = 0
  /\ ext = mbedtls_writer_init_ext(0)
  /\ l2 = mps_l2_init
  /\ xlast = NoXCall
  /\ \E mode \in {TLS, DTLS} : \E o \in HdrFields(mode) :
       LET hdr_len == IF mode = TLS THEN MPS_TLS_HS_HDR_SIZE
                      ELSE MPS_DTLS_HS_HDR_SIZE
       IN /\ buf = Zeros(hdr_len)
          /\ l3 = [mps_l3_init(mode) EXCEPT
                     !.out.hs.type = o.type, !.out.hs.len = o.len,
                     !.out.hs.seq_nr = o.seq_nr,
                     !.out.hs.frag_offset = o.frag_offset,
                     !.out.hs.frag_len = o.frag_len,
                     !.out.hs.hdr = "hdr", !.out.hs.hdr_len = hdr_len]

HdrWrite ==
  /\ l3.out.hs.hdr # NULL
  /\ Apply("check_write_hs_hdr", l3_check_write_hs_hdr(S), FALSE)

HdrParse ==
  /\ xlast.op = "check_write_hs_hdr"
  /\ LET r == IF l3.conf.mode = TLS
              THEN l3_parse_hs_header_tls(buf, l3.inp.hs)
              ELSE l3_parse_hs_header_dtls(buf, l3.inp.hs)
     IN /\ l3' = [l3 EXCEPT !.inp.hs = r.in]
        /\ xlast' = XCall("parse_hs_header", r.ret)
        /\ UNCHANGED <<wr, buf, queue, ext, l2, ghost>>

NextHdr == HdrWrite \/ HdrParse

SpecHdr == InitHdr /\ [][NextHdr]_vars

\* ---------------------------------------------------------------------
\* Claims about the outgoing side of Layer 3
\* ---------------------------------------------------------------------

\* The calls a call record x lists.
Called(x, c) == \E i \in 1..Len(x.l2) : x.l2[i] = c

CalledTo(x, name) == \E i \in 1..Len(x.l2) : x.l2[i][1] = name

WriteOps == {"write_alert", "write_ccs", "write_app", "write_handshake"}

PortOf(op) ==
  CASE op = "write_alert" -> MSG_ALERT
    [] op = "write_ccs" -> MSG_CCS
    [] op = "write_app" -> MSG_APP
    [] op = "write_handshake" -> MSG_HS

\* C17: write_alert, write_ccs, write_app and write_handshake succeed only
\* from the outer state NONE and leave it ALERT, CCS, APP or HS (with the
\* handshake substate ACTIVE); dispatch succeeds only from an outer state
\* other than NONE and leaves it NONE (with the substate NONE after a
\* handshake); a write_handshake in substate PAUSED whose epoch, type or
\* len differs from the paused message returns INVALID_ARGS and changes
\* nothing.
C17_OutgoingStateMachine ==
  [][/\ (xlast'.op \in WriteOps /\ xlast'.rc = OK)
          => /\ l3.out.state = MSG_NONE
             /\ l3'.out.state = PortOf(xlast'.op)
             /\ xlast'.op = "write_handshake"
                   => l3'.out.hs.state = HS_ACTIVE
     /\ (xlast'.op = "dispatch" /\ xlast'.rc = OK)
          => /\ l3.out.state # MSG_NONE
             /\ l3'.out.state = MSG_NONE
             /\ l3.out.state = MSG_HS => l3'.out.hs.state = HS_NONE
     /\ (/\ xlast'.op = "write_handshake"
         /\ l3.out.hs.state = HS_PAUSED
         /\ xlast'.differs)
          => /\ xlast'.rc = INVALID_ARGS
             /\ xlast'.l2 = <<>>
             /\ UNCHANGED <<l3, l2, wr, buf, queue, ext>>]_vars

C17_Witness ==
  /\ xlast.op = "write_handshake"
  /\ xlast.rc = INVALID_ARGS
  /\ xlast.differs
  /\ l3.out.hs.state = HS_PAUSED
  /\ l3.out.state = MSG_NONE

\* C18: while the outgoing handshake substate is PAUSED, write_alert,
\* write_ccs and write_app return NO_INTERLEAVING without a call to
\* Layer 2 and leave Layer 3 as it was; the substate PAUSED is left only
\* by a write_handshake with the epoch, type and len of the paused message.
C18_NoInterleaving ==
  [][/\ (/\ l3.out.hs.state = HS_PAUSED
         /\ xlast'.op \in {"write_alert", "write_ccs", "write_app"})
          => /\ xlast'.rc = NO_INTERLEAVING
             /\ xlast'.l2 = <<>>
             /\ UNCHANGED <<l3, l2, wr, buf, queue, ext>>
     /\ (l3.out.hs.state = HS_PAUSED /\ l3'.out.hs.state # HS_PAUSED)
          => /\ xlast'.op = "write_handshake"
             /\ ~xlast'.differs]_vars

C18_Witness ==
  /\ xlast.op \in {"write_alert", "write_ccs", "write_app"}
  /\ xlast.rc = NO_INTERLEAVING
  /\ l3.out.hs.state = HS_PAUSED

\* The raw writer had no room for what the call of record x asked for.
OutOfRoom(x) ==
  /\ x.op \in {"write_handshake", "write_alert", "write_ccs"}
  /\ Called(x, <<"writer_get", OUT_OF_DATA>>)

\* C19 as stated: when write_handshake (substate NONE), write_alert or
\* write_ccs gets OUT_OF_DATA from the raw writer, it calls write_done,
\* sets the flush-pending flag, leaves the outer state NONE and the
\* handshake substate as it was, and returns RETRY.
C19_RetryAlways ==
  [][OutOfRoom(xlast')
       => /\ CalledTo(xlast', "write_done")
          /\ l3'.out.clearing = 1
          /\ l3'.out.state = MSG_NONE
          /\ l3'.out.hs.state = l3.out.hs.state
          /\ xlast'.rc = RETRY]_vars

\* C19 amended: as above, but the call returns RETRY only if write_done
\* succeeded, and the error of write_done otherwise.
C19_RetryIfReleased ==
  [][OutOfRoom(xlast')
       => /\ CalledTo(xlast', "write_done")
          /\ l3'.out.clearing = 1
          /\ l3'.out.state = MSG_NONE
          /\ l3'.out.hs.state = l3.out.hs.state
          /\ xlast'.op = "write_handshake" => l3.out.hs.state = HS_NONE
          /\ xlast'.rc = IF Called(xlast', <<"write_done", OK>>)
                         THEN RETRY ELSE L2_ERROR]_vars

C19_Witness ==
  /\ OutOfRoom(xlast)
  /\ xlast.rc = RETRY
  /\ l3.out.clearing = 1
  /\ l3.out.state = MSG_NONE
  /\ ~l2.out_open

\* What a Layer 3 call returns when it has not failed.
L3Successes == {OK, MSG_APP, MSG_ALERT, MSG_CCS, MSG_HS, MSG_ACK}

\* C20: a Layer 3 call that fails after its read_start or write_start
\* succeeded has called read_done or write_done before it returns.
C20_ReleasedOnError ==
  [][/\ (/\ xlast'.rc \notin L3Successes
         /\ Called(xlast', <<"read_start", OK>>))
          => CalledTo(xlast', "read_done")
     /\ (/\ xlast'.rc \notin L3Successes
         /\ Called(xlast', <<"write_start", OK>>))
          => CalledTo(xlast', "write_done")]_vars

\* ---------------------------------------------------------------------
\* The writers on their own and under Layer 3
\* ---------------------------------------------------------------------

InitMps == InitExt \/ InitL3

NextMps == NextExt \/ NextL3

SpecMps == InitMps /\ [][NextMps]_vars

ProgrammingErrors ==
  {OPERATION_UNEXPECTED, INVALID_ARG, TOO_MANY_GROUPS, NO_INTERLEAVING}

\* C11: a call on a writer, an extended writer or Layer 3 that returns
\* OPERATION_UNEXPECTED, INVALID_ARG, TOO_MANY_GROUPS or NO_INTERLEAVING
\* leaves the object, and the writer below it, as they were.
C11_ProgrammingErrorsChangeNothing ==
  [][xlast'.rc \in ProgrammingErrors
       => UNCHANGED <<wr, buf, queue, ext, l3, l2>>]_vars

C11_Witness ==
  /\ xlast.op = "group_open"
  /\ xlast.rc = TOO_MANY_GROUPS
  /\ ext.cur_grp = MBEDTLS_WRITER_MAX_GROUPS - 1

\* ---------------------------------------------------------------------
\* Further claims about the outgoing side of Layer 3
\* ---------------------------------------------------------------------

\* All groups are closed and the declared length, if any, is committed.
ExtDone(e) ==
  /\ e.cur_grp = 0
  /\ \/ e.grp_end[1] = MBEDTLS_MPS_SIZE_UNKNOWN
     \/ e.ofs_commit = e.grp_end[1]

\* C21: dispatch of a handshake message succeeds only if all groups of the
\* extended writer are closed and the declared length is UNKNOWN or equal
\* to ofs_commit; otherwise it returns UNFINISHED_HS_MSG and leaves
\* Layer 3, the extended writer and the raw writer as they were.
C21_DispatchNeedsDone ==
  [][(xlast'.op = "dispatch" /\ l3.out.state = MSG_HS)
       => /\ xlast'.rc = OK => ExtDone(ext)
          /\ ~ExtDone(ext)
                => /\ xlast'.rc = UNFINISHED_HS_MSG
                   /\ UNCHANGED <<l3, ext, wr, buf>>]_vars

C21_Witness ==
  /\ xlast.op = "dispatch"
  /\ xlast.rc = UNFINISHED_HS_MSG
  /\ l3.out.state = MSG_HS
  /\ ext.cur_grp > 0

\* ---------------------------------------------------------------------
\* Claims about the incoming side of Layer 3
\* ---------------------------------------------------------------------

\* The reader had too few bytes for the alert or handshake header that the
\* call of record x set out to parse.
OutOfInput(x) ==
  x.op = "read" /\ Called(x, <<"reader_get", READER_OUT_OF_DATA>>)

\* C29 as stated: when the parsing of an alert or of a fresh handshake
\* header runs out of data, mps_l3_read under TLS calls read_done and
\* returns RETRY, and under DTLS returns INVALID_CONTENT; the incoming
\* state stays NONE.
C29_RetryAlways ==
  [][OutOfInput(xlast')
       => /\ l3.inp.state = MSG_NONE
          /\ l3'.inp.state = MSG_NONE
          /\ l3.conf.mode = TLS
                => CalledTo(xlast', "read_done") /\ xlast'.rc = RETRY
          /\ l3.conf.mode = DTLS => xlast'.rc = INVALID_CONTENT]_vars

\* C29 amended: as above, but under TLS the call returns RETRY only if
\* read_done succeeded, and the error of read_done otherwise.
C29_RetryIfReleased ==
  [][OutOfInput(xlast')
       => /\ l3.inp.state = MSG_NONE
          /\ l3'.inp.state = MSG_NONE
          /\ l3'.inp.hs.state = l3.inp.hs.state
          /\ l3.conf.mode = TLS
                => /\ CalledTo(xlast', "read_done")
                   /\ xlast'.rc = IF Called(xlast', <<"read_done", OK>>)
                                  THEN RETRY ELSE L2_ERROR
          /\ l3.conf.mode = DTLS => xlast'.rc = INVALID_CONTENT]_vars

C29_Witness ==
  /\ OutOfInput(xlast)
  /\ xlast.rc = RETRY
  /\ l3.conf.mode = TLS
  /\ l3.inp.state = MSG_NONE
  /\ ~l2.in_open

\* ---------------------------------------------------------------------
\* The pending flush
\* ---------------------------------------------------------------------

\* C30: the flush-pending flag is cleared only by a successful write_flush
\* of Layer 2; a write operation that calls write_start while the flag is
\* set has first called write_flush with success, and one whose
\* write_flush fails returns that error without calling write_start and
\* leaves the flag set.
C30_FlushBeforeWrite ==
  [][/\ (l3.out.clearing = 1 /\ l3'.out.clearing = 0)
          => Called(xlast', <<"write_flush", OK>>)
     /\ (/\ xlast'.op \in WriteOps
         /\ l3.out.clearing = 1
         /\ CalledTo(xlast', "write_start"))
          => xlast'.l2[1] = <<"write_flush", OK>>
     /\ (/\ xlast'.op \in WriteOps
         /\ Called(xlast', <<"write_flush", L2_ERROR>>))
          => /\ xlast'.rc = L2_ERROR
             /\ ~CalledTo(xlast', "write_start")
             /\ l3'.out.clearing = 1]_vars

C30_Witness ==
  /\ xlast.op \in WriteOps
  /\ Called(xlast, <<"write_flush", L2_ERROR>>)
  /\ xlast.rc = L2_ERROR
  /\ l3.out.clearing = 1

\* ---------------------------------------------------------------------
\* Pausing and aborting an outgoing handshake message
\* ---------------------------------------------------------------------

\* C25: pause_handshake succeeds only under TLS, in the outer state HS
\* with the substate ACTIVE and a known length; it then returns the raw
\* writer to Layer 2 and leaves the outer state NONE and the substate
\* PAUSED; under DTLS the outgoing substate is never PAUSED.
C25_PauseTlsOnly ==
  /\ [][(xlast'.op = "pause_handshake" /\ xlast'.rc = OK)
          => /\ l3.conf.mode = TLS
             /\ l3.out.state = MSG_HS
             /\ l3.out.hs.state = HS_ACTIVE
             /\ l3.out.hs.len # MBEDTLS_MPS_SIZE_UNKNOWN
             /\ Called(xlast', <<"write_done", OK>>)
             /\ ~l2'.out_open
             /\ l3'.out.state = MSG_NONE
             /\ l3'.out.hs.state = HS_PAUSED]_vars
  /\ [](l3.conf.mode = DTLS => l3.out.hs.state # HS_PAUSED)

\* C26: abort_handshake is accepted only in the outer state HS with the
\* substate ACTIVE and succeeds only if nothing has been committed on the
\* extended writer; on success the raw writer is back with Layer 2 and
\* the outer state and the substate are NONE.
C26_AbortNeedsNothingCommitted ==
  [][xlast'.op = "write_abort_handshake"
       => /\ ~(l3.out.state = MSG_HS /\ l3.out.hs.state = HS_ACTIVE)
                => /\ xlast'.rc = OPERATION_UNEXPECTED
                   /\ UNCHANGED <<l3, l2, ext, wr, buf>>
          /\ xlast'.rc = OK
                => /\ ext.ofs_commit = 0
                   /\ Called(xlast', <<"write_done", OK>>)
                   /\ ~l2'.out_open
                   /\ l3'.out.raw_out = NULL
                   /\ l3'.out.state = MSG_NONE
                   /\ l3'.out.hs.state = HS_NONE]_vars

C26_Witness ==
  /\ xlast.op = "write_abort_handshake"
  /\ xlast.rc = OK
  /\ l3.out.state = MSG_NONE
  /\ l3.out.hs.state = HS_NONE
  /\ ~l2.out_open

\* ---------------------------------------------------------------------
\* Draining the queue
\* ---------------------------------------------------------------------

SameHeader ==
  /\ l3.inp.hs.type = l3.out.hs.type
  /\ l3.inp.hs.len = l3.out.hs.len
  /\ l3.conf.mode = DTLS =>
        /\ l3.inp.hs.seq_nr = l3.out.hs.seq_nr
        /\ l3.inp.hs.frag_offset = l3.out.hs.frag_offset
        /\ l3.inp.hs.frag_len = l3.out.hs.frag_len

EmittedHeader(b) ==
  IF l3.conf.mode = TLS
  THEN l3_parse_hs_header_tls(From(b, l3.out.hs.hdr_ofs), l3.inp.hs).in
  ELSE l3_parse_hs_header_dtls(From(b, l3.out.hs.hdr_ofs), l3.inp.hs).in

\* C24: under DTLS the handshake header of a message that write_handshake
\* accepted and dispatch sent off has frag_offset + frag_len <= len, also
\* when the length was known and the fragment length was not.
C24_FragmentWithinLength ==
  [][ (/\ l3.conf.mode = DTLS /\ l3.out.state = MSG_HS
       /\ xlast'.op = "dispatch" /\ xlast'.rc = OK)
        => LET h == EmittedHeader(buf')
           IN h.frag_offset + h.frag_len <= h.len ]_vars

\* The length that decides how the extended writer is attached.
LenUnknown(hs) ==
  IF l3.conf.mode = TLS THEN hs.len = MBEDTLS_MPS_SIZE_UNKNOWN
  ELSE hs.frag_len = MBEDTLS_MPS_SIZE_UNKNOWN

\* C27: write_handshake attaches the extended writer in PASS mode if the
\* length (TLS: len, DTLS: frag_len) is known and in HOLD mode otherwise;
\* while a message of unknown length is written, nothing is committed on
\* the raw writer before dispatch; and the header written at dispatch has
\* length = the bytes committed on the extended writer (DTLS: length =
\* fragment length = committed and fragment offset 0).
C27_HoldUntilDispatch ==
  [][ /\ (xlast'.op = "write_handshake" /\ xlast'.rc = OK)
         => ext'.passthrough =
              IF xlast'.len = MBEDTLS_MPS_SIZE_UNKNOWN THEN HOLD ELSE PASS
      /\ (/\ l3.out.state = MSG_HS /\ l3.out.hs.state = HS_ACTIVE
          /\ LenUnknown(l3.out.hs))
         => /\ xlast'.op # "dispatch" => wr'.committed = wr.committed
            /\ (xlast'.op = "dispatch" /\ xlast'.rc = OK)
                 => LET h == EmittedHeader(buf')
                    IN /\ h.len = ext.ofs_commit
                       /\ l3.conf.mode = DTLS =>
                             /\ h.frag_len = ext.ofs_commit
                             /\ h.frag_offset = 0 ]_vars

\* The plaintext of the records written so far: that of the records ended
\* and the committed part of the open one.
Plaintext ==
  sent \o (IF wr.state = CONSUMING THEN SubSeq(buf, 1, wr.committed)
           ELSE <<>>)

\* The message has been dispatched.
Dispatched ==
  /\ l3.out.hs.state = HS_NONE
  /\ wr.state = CONSUMING \/ sent # <<>>

\* C22: under TLS, the plaintext of the records that a handshake message
\* of known length L was written to, with pauses and resumptions, is the
\* 4-byte header (type, 24-bit L) followed by the L bytes of the body in
\* order; no header is reserved when the writing is resumed.
C22_PlaintextIsHeaderThenBody ==
  Dispatched =>
    LET L == l3.out.hs.len
    IN Plaintext = << l3.out.hs.type, (L \div 65536) % 256,
                      (L \div 256) % 256, L % 256 >>
                   \o [p \in 1..L |-> BodyByte(p)]

C22_Witness ==
  /\ xlast.op = "dispatch" /\ xlast.rc = OK
  /\ l3.out.hs.len = MaxBody + 1
  /\ Len(sent) = MPS_TLS_HS_HDR_SIZE + MaxBody
  /\ wr.state = CONSUMING /\ wr.committed = 1
  /\ buf[1] = BodyByte(MaxBody + 1)

\* Offset in the region out || queue of the first byte of the slice that
\* the call recorded in c handed out, for the writer w after the call.
SliceOffset(c, w) ==
  IF c.slice.base = "out" THEN c.slice.ofs
  ELSE c.slice.ofs + w.out_len - w.queue_next

\* C35: a successful commit_partial leaves end = committed = the fetched end
\* less the omitted bytes, and a reclaim that fails with DATA_LEFT leaves
\* end = committed with committed, the state and the buffer as they were; the
\* next get then hands out the bytes from offset committed on again.
C35_RewindToCommitted ==
  [][ /\ (last'.op = "commit" /\ last'.rc = OK)
         => /\ wr'.end = wr'.committed
            /\ wr'.committed = wr.end - last'.omit
            /\ wr'.out_len = wr.out_len /\ wr'.state = CONSUMING
      /\ (last'.op = "reclaim" /\ last'.rc = DATA_LEFT)
         => /\ wr'.end = wr'.committed
            /\ wr'.committed = wr.committed
            /\ wr'.out_len = wr.out_len /\ wr'.state = CONSUMING
            /\ buf' = buf
      /\ (/\ \/ last.op = "commit" /\ last.rc = OK
             \/ last.op = "reclaim" /\ last.rc = DATA_LEFT
          /\ last'.op = "get" /\ last'.rc = OK /\ last'.slice.len > 0)
         => SliceOffset(last', wr') = wr.committed ]_vars

C35_Witness ==
  /\ last.op = "commit" /\ last.rc = OK /\ last.omit = 2
  /\ wr.end = wr.committed /\ wr.committed = wr.out_len
  /\ wr.queue_next > 0

\* C34: the writer stays inside its buffers: a slice handed out by get lies
\* inside the out buffer or inside the queue; the copy made by
\* commit_partial reads n bytes from the start of the queue and writes them
\* at out_len - queue_next, with n <= queue_next, inside both buffers; and
\* in providing state queue_next + queue_remaining <= queue_len, so that
\* feed reads inside the queue.
C34_AccessesInBounds ==
  /\ [](
       /\ (last.op = "get" /\ last.rc = OK)
          => /\ last.slice.base \in {"out", "queue"}
             /\ (last.slice.base = "out"
                   => last.slice.ofs + last.slice.len <= wr.out_len)
             /\ (last.slice.base = "queue"
                   => /\ wr.queue # NULL
                      /\ last.slice.ofs + last.slice.len <= wr.queue_len)
       /\ (wr.state = PROVIDING
            => wr.queue_next + wr.queue_remaining <= wr.queue_len)
     )
  /\ [][
       /\ ((last'.op = "commit" /\ last'.rc = OK)
            => LET n == commit_copy_from_queue(wr, wr.end - last'.omit)
               IN /\ n <= wr.queue_next
                  /\ n <= wr.queue_len
                  /\ wr.queue_next <= wr.out_len
                  /\ (n > 0 => wr.queue # NULL))
       /\ ((last'.op = "feed" /\ last'.rc # OPERATION_UNEXPECTED)
            => /\ last'.copied <= last'.buf_len
               /\ wr.queue_next + last'.copied <= wr.queue_len)
     ]_vars

C34_Witness ==
  /\ last.op = "commit" /\ last.rc = OK
  /\ wr.queue_next > 0 /\ wr.committed > wr.out_len
  /\ Len(buf) = wr.out_len /\ Len(queue) >= wr.queue_next
  /\ buf[wr.out_len] = queue[wr.queue_next] /\ buf[wr.out_len] > 0

\* The size of the handshake header that write_handshake reserves.
HdrSize == IF l3.conf.mode = TLS THEN MPS_TLS_HS_HDR_SIZE
           ELSE MPS_DTLS_HS_HDR_SIZE

\* C31: after a successful pause_handshake of a message that the last
\* write_handshake started (not resumed), the committed offset of the raw
\* writer is the end of the reserved header plus the body bytes committed on
\* the extended writer, also when nothing was committed before the pause.
C31_PauseCommitsHeaderAndBody ==
  [][ (xlast'.op = "pause_handshake" /\ xlast'.rc = OK /\ xlast.fresh)
        => /\ wr'.committed = l3.out.hs.hdr_ofs + HdrSize + ext.ofs_commit
           /\ wr'.end = wr'.committed
           /\ ext'.ofs_commit = ext.ofs_commit ]_vars

C31_Witness ==
  /\ xlast.op = "pause_handshake" /\ xlast.rc = OK /\ xlast.fresh
  /\ ext.ofs_commit = 0
  /\ wr.committed = l3.out.hs.hdr_ofs + HdrSize
  /\ wr.committed > xlast.base

\* C32: Layer 3 has dropped its reference to the raw writer whenever it
\* calls write_done: a call that has called write_done leaves raw_out
\* NULL, and raw_out stays NULL until a write_start succeeds.
C32_NoReferenceAfterWriteDone ==
  [][ /\ CalledTo(xlast', "write_done") => l3'.out.raw_out = NULL
      /\ (l3.out.raw_out = NULL /\ ~Called(xlast', <<"write_start", OK>>))
           => l3'.out.raw_out = NULL ]_vars

\* C33: between Layer 3 calls, an outgoing state of handshake comes with an
\* active handshake substate, so that the assertion at the start of the
\* handshake branch of dispatch holds, also after calls that failed.
C33_HandshakeStateIsActive ==
  l3.out.state = MSG_HS => l3.out.hs.state = HS_ACTIVE

\* C36: while an extended writer is attached, the bytes fetched and not
\* committed on it are at most those fetched and not committed on the raw
\* writer, so that the commit_partial which dispatch and pause_handshake
\* issue on the raw writer after the detach never fails with INVALID_ARG.
C36_UncommittedFitsRawWriter ==
  /\ [](ext.wr # NULL
          => /\ ext.ofs_commit <= ext.ofs_fetch
             /\ ext.ofs_fetch - ext.ofs_commit <= wr.end - wr.committed)
  /\ [][xlast'.op \in {"dispatch", "pause_handshake"}
          => xlast'.rc # INVALID_ARG]_vars

C36_Witness ==
  /\ xlast.op = "pause_handshake" /\ xlast.rc = OK /\ ~xlast.fresh
  /\ ext.wr = NULL /\ wr.end = wr.committed

\* C37: a successful write_abort_handshake leaves the committed offset of
\* the raw writer where it was when the aborted write_handshake was called:
\* neither the reserved header nor a body byte of the message is committed.
C37_AbortCommitsNothing ==
  [][(xlast'.op = "write_abort_handshake" /\ xlast'.rc = OK)
        => wr'.committed = xlast.base]_vars

\* What the header writer of the mode leaves in a reserved area whose
\* bytes all held -1 before, a value no write produces.
HeaderOverStale(hs) ==
  LET area == [i \in 1..HdrSize |-> -1]
  IN IF l3.conf.mode = TLS THEN l3_write_hs_header_tls(hs, area)
     ELSE l3_write_hs_header_dtls(hs, area)

\* C38: when a handshake message that the last write_handshake started is
\* dispatched, each of the header bytes reserved for it (4 under TLS, 13
\* under DTLS) holds what Layer 3 wrote for a header field, none what the
\* buffer held before.
C38_HeaderFullyWritten ==
  [][(/\ xlast'.op = "dispatch" /\ xlast'.rc = OK
      /\ l3.out.state = MSG_HS /\ xlast.fresh)
        => \A i \in 1..HdrSize :
             /\ l3.out.hs.hdr_ofs + i <= Len(buf')
             /\ buf'[l3.out.hs.hdr_ofs + i] = HeaderOverStale(l3'.out.hs)[i]
     ]_vars

\* A borrow of the raw writer is outstanding exactly when the outgoing
\* state is not NONE.
BorrowMatchesState == l2.out_open <=> l3.out.state # MSG_NONE

\* The positions of the calls to a Layer 2 function in a call record.
CallsTo(x, name) == {i \in 1..Len(x.l2) : x.l2[i][1] = name}

\* C39: as long as every Layer 2 call succeeds, write_start and write_done
\* alternate, starting with write_start: a call issues write_start only
\* while no writer is borrowed and write_done only while one is, and
\* between the calls a writer is borrowed exactly when the outgoing state
\* is not NONE.
C39_StartAndDoneAlternate ==
  /\ []((l3.conf.mode # NULL /\ xlast.n = 0)
          => (BorrowMatchesState /\ ~l2.out_open))
  /\ [][
       (/\ BorrowMatchesState
        /\ \A i \in 1..Len(xlast'.l2) : xlast'.l2[i][2] = OK)
         => LET starts == CallsTo(xlast', "write_start")
                dones  == CallsTo(xlast', "write_done")
            IN /\ Cardinality(starts) <= 1
               /\ Cardinality(dones) <= 1
               /\ (starts # {} => ~l2.out_open)
               /\ (dones # {} =>
                    \/ l2.out_open
                    \/ \E i \in starts : \A j \in dones : i < j)
               /\ ((starts # {} /\ dones = {}) => l2'.out_open)
               /\ (dones # {} => ~l2'.out_open)
               /\ ((starts = {} /\ dones = {}) => l2'.out_open = l2.out_open)
               /\ BorrowMatchesState'
     ]_vars

C39_Witness ==
  /\ xlast.op = "write_app" /\ xlast.rc = OK
  /\ Called(xlast, <<"write_start", OK>>)
  /\ l2.out_open /\ l3.out.state = MSG_APP
  /\ wr.committed > 0

\* C40: while the group opened last is the current group, the fetch offset
\* of the extended writer does not drop below the offset at which the group
\* was opened, so that no more bytes than the size of the group are fetched
\* inside it.
C40_FetchStaysInGroup ==
  xlast.grp_start >= 0 => ext.ofs_fetch >= xlast.grp_start

====
